---------------------------- MODULE Spec2Model ----------------------------
(***************************************************************************)
(* The hydraulic network solver of pipecacu: CalculationManager.run        *)
(* (calculation/manager.py), NetworkGraph.build (calculation/topology.py), *)
(* LAHISolver (calculation/lahi_solver.py) and the conductance formulas of *)
(* calculation/physics.py.                                                 *)
(*                                                                         *)
(* Fixed-point units.  The source computes in IEEE doubles; the model      *)
(* keeps the same formulas on integer grids:                               *)
(*     pressure      1 unit = 100 Pa        (101325 Pa -> 1013)            *)
(*     conductance   1 unit = 1e-9 m3/s/Pa                                 *)
(*     flow          1 unit = 1e-7 m3/s     (= conductance x pressure)     *)
(*     omega         1 unit = 1e-4                                         *)
(* A double that is NaN is the value NaN; every arithmetic helper          *)
(* propagates it and every comparison with it is false, as in IEEE 754.    *)
(***************************************************************************)
EXTENDS Integers, Sequences, FiniteSets, TLC

(***************************************************************************)
(* Bounds of the model.                                                    *)
(***************************************************************************)
\* most points in a topology document drawn from PointLists
MaxNodes == 2
\* most lines in a topology document drawn from LineLists
MaxPipes == 2
\* LAHISolver.max_iter (100 in the source, lahi_solver.py:25), scaled down
MaxIter == 5

(***************************************************************************)
(* Program constants, in the units above.                                  *)
(***************************************************************************)
\* 1.01325e5 Pa, the anchor pressure of tank ports and the initial P
PAtm == 1013
\* np.maximum(self.P, 100.0)
PFloor == 1
\* self.tolerance = 1e-7 m3/s
Tolerance == 1
\* self.omega = 0.5, self.min_omega = 0.05, self.max_omega = 0.9
OmegaInit == 5000
MinOmega == 500
MaxOmega == 9000
\* the scale of omega: 1.0
OmegaOne == 10000
\* dummy_dp = 1000.0 Pa in _init_conductance
DummyDp == 10
\* the default conductance 1e-6 of G_map.get(pipe.id, 1e-6)
GDefault == 1000
\* the floor max(g, 1e-10): the smallest positive conductance of the grid
GFloor == 1
\* return 1e-8 when the Darcy denominator vanishes
GSmall == 10
\* `if set_p_pa > 1.0` in _find_pressure_anchors: 1 Pa is below the grid,
\* so a set pressure exceeds it iff it is at least one unit
PSetMin == 1

NaN == 0 - 1000000000
Inf == 1000000000

IsNaN(x) == x = NaN
Abs(x) == IF x < 0 THEN 0 - x ELSE x
Max2(a, b) == IF a > b THEN a ELSE b
Min2(a, b) == IF a < b THEN a ELSE b

\* IEEE arithmetic on doubles that may be NaN
FAdd(a, b) == IF IsNaN(a) \/ IsNaN(b) THEN NaN ELSE a + b
FSub(a, b) == IF IsNaN(a) \/ IsNaN(b) THEN NaN ELSE a - b
FMul(a, b) == IF IsNaN(a) \/ IsNaN(b) THEN NaN ELSE a * b
FAbs(a) == IF IsNaN(a) THEN NaN ELSE Abs(a)
FLt(a, b) == ~IsNaN(a) /\ ~IsNaN(b) /\ a < b
FGt(a, b) == ~IsNaN(a) /\ ~IsNaN(b) /\ a > b
\* Python's max(a, b): b if b > a else a, so max(nan, b) is nan
PyMax(a, b) == IF FGt(b, a) THEN b ELSE a
\* np.maximum(a, b) propagates NaN
NpMaximum(a, b) == IF IsNaN(a) \/ IsNaN(b) THEN NaN ELSE Max2(a, b)

RECURSIVE ISqrtBetween(_, _, _)
ISqrtBetween(n, lo, hi) ==
    IF lo >= hi THEN lo
    ELSE LET mid == (lo + hi + 1) \div 2
         IN IF mid * mid <= n THEN ISqrtBetween(n, mid, hi)
            ELSE ISqrtBetween(n, lo, mid - 1)
\* the integer part of math.sqrt(n), n >= 0
ISqrt(n) == ISqrtBetween(n, 0, Min2(n, 46340))

RECURSIVE SumSeq(_)
SumSeq(s) == IF s = <<>> THEN 0 ELSE Head(s) + SumSeq(Tail(s))


(***************************************************************************)
(* The topology document (temporary_data.json).  Point i carries label i;  *)
(* a line names its end points by label, and label 0 is the label of no    *)
(* point.  Lengths are in m, diameters in mm, pump_head in kPa, pump_flow  *)
(* in m3/h, valve_open in percent, as the editor writes them.              *)
(***************************************************************************)
\* A field of the document is a JSON value: a number, or a string (the
\* editor stores the text of its input fields, designer_area.py:807, 898).
\* A text is the sequence of its characters.
JNum(n) == [json |-> "number", num |-> n, text |-> <<>>]
JStr(t) == [json |-> "string", num |-> 0, text |-> t]

\* Python's truth value: a number other than 0, a string other than ""
Truthy(v) == IF v.json = "number" THEN v.num # 0 ELSE v.text # <<>>

Digits == {"0", "1", "2", "3", "4", "5", "6", "7", "8", "9"}
DigitValue(c) ==
    CASE c = "0" -> 0 [] c = "1" -> 1 [] c = "2" -> 2 [] c = "3" -> 3 [] c = "4" -> 4
      [] c = "5" -> 5 [] c = "6" -> 6 [] c = "7" -> 7 [] c = "8" -> 8 [] c = "9" -> 9

\* the texts float() is modelled on: decimal integers with an optional sign
IsDecimal(t) ==
    LET body == IF t # <<>> /\ Head(t) = "-" THEN Tail(t) ELSE t
    IN body # <<>> /\ \A k \in DOMAIN body : body[k] \in Digits

RECURSIVE ParseDigits(_, _)
ParseDigits(t, acc) ==
    IF t = <<>> THEN acc ELSE ParseDigits(Tail(t), 10 * acc + DigitValue(Head(t)))

\* float(v): the number itself, or the number a text denotes; any other
\* text (the empty one included) raises ValueError
FloatRaises(v) == v.json = "string" /\ ~IsDecimal(v.text)
PyFloat(v) ==
    IF v.json = "number" THEN v.num
    ELSE IF Head(v.text) = "-" THEN 0 - ParseDigits(Tail(v.text), 0)
    ELSE ParseDigits(v.text, 0)

\* float(data.get(key, 0) or default)
FloatOr(v, default) == IF Truthy(v) THEN PyFloat(v) ELSE default

PointKinds ==
    { [ptype |-> "normal", pump_type |-> "",      pump_head |-> 0,   pump_flow |-> 0,
       valve_k |-> 0,  valve_open |-> JNum(100), tee_k |-> 0],
      [ptype |-> "valve",  pump_type |-> "",      pump_head |-> 0,   pump_flow |-> 0,
       valve_k |-> 10, valve_open |-> JNum(50),  tee_k |-> 0],
      [ptype |-> "tee",    pump_type |-> "",      pump_head |-> 0,   pump_flow |-> 0,
       valve_k |-> 0,  valve_open |-> JNum(100), tee_k |-> 1],
      [ptype |-> "tank",   pump_type |-> "",      pump_head |-> 0,   pump_flow |-> 0,
       valve_k |-> 0,  valve_open |-> JNum(100), tee_k |-> 0],
      [ptype |-> "pump",   pump_type |-> "gear",  pump_head |-> 102, pump_flow |-> 1,
       valve_k |-> 0,  valve_open |-> JNum(100), tee_k |-> 0],
      [ptype |-> "pump",   pump_type |-> "gear",  pump_head |-> 120, pump_flow |-> 2,
       valve_k |-> 0,  valve_open |-> JNum(100), tee_k |-> 0],
      [ptype |-> "pump",   pump_type |-> "curve", pump_head |-> 102, pump_flow |-> 0,
       valve_k |-> 0,  valve_open |-> JNum(100), tee_k |-> 0] }

\* a valve of rated Cv 10 whose opening field holds v
ValvePoint(v) ==
    [ptype |-> "valve", pump_type |-> "", pump_head |-> 0, pump_flow |-> 0,
     valve_k |-> 10, valve_open |-> v, tee_k |-> 0]

\* the ways a document holds a zero: the number 0 and the text "0"
ZeroValues == { JNum(0), JStr(<<"0">>) }
\* a field the editor left empty
Blank == JStr(<<>>)

Labels == 0 .. MaxNodes

PointLists == UNION { [1 .. n -> PointKinds] : n \in 0 .. MaxNodes }
\* the editor joins two different points (designer_area.py:341)
LineEnds == { l \in [start_label : Labels, end_label : Labels] : l.start_label # l.end_label }
\* the lines of a document are listed by increasing (start_label, end_label)
LineOrder(l) == l.start_label * (MaxNodes + 1) + l.end_label
RECURSIVE SortLines(_)
SortLines(S) ==
    IF S = {} THEN <<>>
    ELSE LET l == CHOOSE x \in S : \A y \in S : LineOrder(x) <= LineOrder(y)
         IN <<l>> \o SortLines(S \ {l})
LineLists ==
    { SortLines(S) : S \in { T \in SUBSET LineEnds : Cardinality(T) <= MaxPipes } }
\* the lines of ls that name a label none of the n points carries
Unmatched(n, ls) ==
    { k \in DOMAIN ls : ls[k].start_label \notin 1 .. n \/ ls[k].end_label \notin 1 .. n }

\* a readable document whose lines all carry the diameter dia and the
\* length len
Document(ps, ls, dia, len) ==
    [file |-> "ok", points |-> ps, lines |-> ls, diameter |-> dia, length |-> len]
\* a missing file, an unparsable file
NoDocument(f) ==
    [file |-> f, points |-> <<>>, lines |-> <<>>, diameter |-> JNum(40), length |-> JNum(10)]

(***************************************************************************)
(* models.py: Node and Pipe                                                *)
(***************************************************************************)
\* inlet_idx = None
None == 0 - 2

\* pump_params of a pump point, in the model's units: kPa -> 100 Pa is x10,
\* m3/h -> 1e-7 m3/s is x2778; the shutoff head defaults to 1.2 x rated, and
\* B (100 Pa per (m3/h)^2) stays 0 unless the rated flow exceeds 1e-6 m3/s
PumpParams(d) ==
    IF d.ptype # "pump" THEN [x \in {} |-> 0]
    ELSE IF d.pump_type = "gear"
         THEN [Q_source |-> d.pump_flow * 2778, P_max |-> d.pump_head * 10]
         ELSE [A |-> 12 * d.pump_head,
               B |-> IF d.pump_flow * 2778 > 10 THEN (2 * d.pump_head) \div (d.pump_flow * d.pump_flow)
                     ELSE 0]

\* dict.get(key, default)
DictGet(dict, key, default) == IF key \in DOMAIN dict THEN dict[key] ELSE default

Node(label, d) ==
    [id |-> label, type |-> d.ptype,
     pump_mode |-> IF d.ptype # "pump" THEN "none"
                   ELSE IF d.pump_type = "gear" THEN "constant_flow" ELSE "curve",
     pump_params |-> PumpParams(d),
     valve_cv |-> d.valve_k,
     valve_open |-> FloatOr(d.valve_open, 100),
     tee_k |-> d.tee_k,
     matrix_idx |-> 0 - 1, inlet_idx |-> None]

\* diameter in 1e-5 m: raw mm x 100, and the default 0.040 / 1000 m = 4e-5 m;
\* length in m, default 10; start_idx and end_idx do not exist before build
\* (None here)
Pipe(label, d, dia, len) ==
    [id |-> label, start_node_id |-> d.start_label, end_node_id |-> d.end_label,
     diameter |-> IF Truthy(dia) THEN PyFloat(dia) * 100 ELSE 4,
     length |-> FloatOr(len, 10),
     start_idx |-> None, end_idx |-> None, flow |-> 0]

(***************************************************************************)
(* physics.py, for the default fluid (VG320: rho = 920 kg/m3,              *)
(* nu = 347.8e-6 m2/s).  Velocities in mm/s, Reynolds numbers and friction *)
(* factors in thousandths.                                                 *)
(***************************************************************************)
\* calc_reynolds: Re = |v D / nu|, 0 below |v| = 1e-9
calc_reynolds(v_mm, D) ==
    IF v_mm = 0 THEN 0 ELSE Abs(((v_mm * D) \div 100) * 2875) \div 1000

\* the fully rough limit of the Churchill correlation for eps/D of a 40 mm pipe
FRough == 20

\* calc_friction_factor: 64/1e-3 below Re = 1e-3; otherwise Churchill's
\* 12-norm of the laminar term 64/Re and the turbulent term, which the grid
\* takes as the larger of the two
calc_friction_factor(re) ==
    IF re < 1 THEN 64000000 ELSE Max2(64000000 \div re, FRough)

\* pi D^4 / (128 mu L)
LaminarConductance(pipe) ==
    LET Dmm == pipe.diameter \div 100
    IN (((Dmm * Dmm * Dmm * Dmm) \div 100) * 766) \div (pipe.length * 100000)

\* the argument of math.sqrt in the velocity estimate: 2 D |dP| / (0.03 L rho)
VelocitySquared(pipe, dP) == (72 * pipe.diameter * Abs(dP)) \div pipe.length

\* the exception calc_pipe_conductance raises, "" when it returns: a zero
\* length divides by zero on either branch (lines 79, 88), and math.sqrt of
\* a negative number raises ValueError (line 88)
PipeConductanceError(pipe, dP) ==
    IF pipe.length = 0 THEN "ZeroDivisionError"
    ELSE IF ~IsNaN(dP) /\ Abs(dP) >= 1 /\ VelocitySquared(pipe, dP) < 0 THEN "ValueError"
    ELSE ""

PipeConductanceRaises(pipe, dP) == PipeConductanceError(pipe, dP) # ""

calc_pipe_conductance(pipe, dP) ==
    IF IsNaN(dP) THEN NaN
    ELSE IF Abs(dP) < 1 THEN Max2(LaminarConductance(pipe), GFloor)
    ELSE LET Dmm == pipe.diameter \div 100
             v == ISqrt(VelocitySquared(pipe, dP))
             re == calc_reynolds(v, pipe.diameter)
             f == calc_friction_factor(re)
             \* f L rho |dP| < 1e-12: f and rho are positive, so the test is
             \* that of L |dP|
             denominator == pipe.length * Abs(dP)
         IN IF denominator < 1 THEN GSmall
            ELSE Max2((3662 * Dmm * Dmm
                        * ISqrt(((Dmm * 1000000) \div f) \div (pipe.length * Abs(dP))))
                       \div 1000000,
                      GFloor)

\* calc_local_conductance for diameter 0.04 m
calc_local_conductance(k, dP) ==
    IF Abs(dP) < 1 \/ k <= 0 THEN 10000
    ELSE Max2(585900 \div ISqrt(k * Abs(dP) * 10000), GFloor)

\* a valve formula without the floor max(g, 1e-10)
calc_valve_conductance_unfloored(node, dP) ==
    IF Abs(dP) < 1 THEN GSmall
    ELSE (node.valve_cv * node.valve_open * 1205) \div (100 * ISqrt(Abs(dP) * 10000))

\* calc_valve_conductance: Cv_eff N / sqrt(SG |dP|)
calc_valve_conductance(node, dP) ==
    IF Abs(dP) < 1 THEN GSmall
    ELSE Max2((node.valve_cv * node.valve_open * 1205) \div (100 * ISqrt(Abs(dP) * 10000)),
              GFloor)


(***************************************************************************)
(* topology.py: NetworkGraph.build                                         *)
(***************************************************************************)
\* a build that advances by two indices for a pump only
IndexWidthPumpOnly(node) == IF node.type = "pump" THEN 2 ELSE 1

\* the logical indices a node takes: IN and OUT for a pump or a tank
IndexWidth(node) == IF node.type \in {"pump", "tank"} THEN 2 ELSE 1

\* current_idx when the loop reaches node k
RECURSIVE CurrentIdx(_, _)
CurrentIdx(ns, k) ==
    IF k <= 1 THEN 0 ELSE CurrentIdx(ns, k - 1) + IndexWidth(ns[k - 1])

AssignIndices(ns) ==
    [k \in DOMAIN ns |->
        IF ns[k].type \in {"pump", "tank"}
        THEN [ns[k] EXCEPT !.inlet_idx = CurrentIdx(ns, k),
                           !.matrix_idx = CurrentIdx(ns, k) + 1]
        ELSE [ns[k] EXCEPT !.inlet_idx = None,
                           !.matrix_idx = CurrentIdx(ns, k)]]

TotalIndices(ns) == CurrentIdx(ns, Len(ns) + 1)

\* next(n for n in self.nodes if n.id == label): the position of the first
\* node with that id, 0 when there is none (StopIteration)
FindNode(ns, label) ==
    IF \E k \in DOMAIN ns : ns[k].id = label
    THEN CHOOSE k \in DOMAIN ns :
            /\ ns[k].id = label
            /\ \A j \in DOMAIN ns : ns[j].id = label => k <= j
    ELSE 0

Dangling(ns, pipe) ==
    FindNode(ns, pipe.start_node_id) = 0 \/ FindNode(ns, pipe.end_node_id) = 0

\* the first pipe of the loop that raises, 0 when none does
FirstDangling(ns, ps) ==
    IF \E k \in DOMAIN ps : Dangling(ns, ps[k])
    THEN CHOOSE k \in DOMAIN ps :
            /\ Dangling(ns, ps[k])
            /\ \A j \in DOMAIN ps : Dangling(ns, ps[j]) => k <= j
    ELSE 0

\* a redirection that sends every end to the IN of its node
RedirectToInlet(ns, pipe) ==
    LET s_node == ns[FindNode(ns, pipe.start_node_id)]
        e_node == ns[FindNode(ns, pipe.end_node_id)]
    IN [pipe EXCEPT !.start_idx = s_node.matrix_idx,
                    !.end_idx = e_node.inlet_idx]

\* a redirection that starts a pipe at the IN of a pump or a tank
RedirectStartToInlet(ns, pipe) ==
    LET s_node == ns[FindNode(ns, pipe.start_node_id)]
        e_node == ns[FindNode(ns, pipe.end_node_id)]
    IN [pipe EXCEPT !.start_idx = IF s_node.type \in {"pump", "tank"}
                                  THEN s_node.inlet_idx ELSE s_node.matrix_idx,
                    !.end_idx = IF e_node.type \in {"pump", "tank"}
                                THEN e_node.inlet_idx ELSE e_node.matrix_idx]

\* the start goes to the start node's OUT (matrix_idx); the end goes to the
\* IN of a pump or a tank and to the matrix_idx of any other node
Redirect(ns, pipe) ==
    LET s_node == ns[FindNode(ns, pipe.start_node_id)]
        e_node == ns[FindNode(ns, pipe.end_node_id)]
    IN [pipe EXCEPT !.start_idx = s_node.matrix_idx,
                    !.end_idx = IF e_node.type \in {"pump", "tank"}
                                THEN e_node.inlet_idx ELSE e_node.matrix_idx]

\* the pipes after the redirection loop: those before the first dangling
\* pipe are redirected, the loop stops there
RedirectPipes(ns, ps) ==
    LET fd == FirstDangling(ns, ps)
    IN [k \in DOMAIN ps |->
          IF fd = 0 \/ k < fd THEN Redirect(ns, ps[k]) ELSE ps[k]]


(***************************************************************************)
(* lahi_solver.py: the helpers of LAHISolver.  ns are the graph's nodes,   *)
(* ps its pipes, n the number of logical indices (self.num_nodes).         *)
(***************************************************************************)
PipeKey(pipe) == <<"pipe", pipe.id>>
NodeKey(node) == <<"node", node.id>>

\* the first pipe on which calc_pipe_conductance raises at pressure drop dP,
\* 0 when none does
FirstRaising(ps, dP) ==
    IF \E k \in DOMAIN ps : PipeConductanceRaises(ps[k], dP)
    THEN CHOOSE k \in DOMAIN ps :
            /\ PipeConductanceRaises(ps[k], dP)
            /\ \A j \in DOMAIN ps : PipeConductanceRaises(ps[j], dP) => k <= j
    ELSE 0

\* _init_conductance: every pipe, then every valve and tee, at 1000 Pa
SeedValue(ns, ps, key) ==
    IF key[1] = "pipe"
    THEN LET k == CHOOSE k \in DOMAIN ps :
                    /\ ps[k].id = key[2]
                    /\ \A j \in DOMAIN ps : ps[j].id = key[2] => j <= k
         IN calc_pipe_conductance(ps[k], DummyDp)
    ELSE LET k == CHOOSE k \in DOMAIN ns :
                    /\ ns[k].id = key[2] /\ ns[k].type \in {"valve", "tee"}
                    /\ \A j \in DOMAIN ns :
                          (ns[j].id = key[2] /\ ns[j].type \in {"valve", "tee"}) => j <= k
         IN IF ns[k].type = "valve"
            THEN calc_valve_conductance(ns[k], DummyDp)
            ELSE calc_local_conductance(ns[k].tee_k, DummyDp)

InitConductance(ns, ps) ==
    LET keys == { PipeKey(ps[k]) : k \in DOMAIN ps }
                \cup { NodeKey(ns[k]) : k \in { j \in DOMAIN ns : ns[j].type \in {"valve", "tee"} } }
    IN [key \in keys |-> SeedValue(ns, ps, key)]

\* _find_pressure_anchors: both ports of every tank at atmospheric
\* pressure, the OUT of every pump whose P_max exceeds 1 Pa at P_max, and
\* index 0 when that leaves nothing
ExplicitAnchors(ns) ==
    LET tankIdx == UNION { {ns[k].matrix_idx} \cup
                           (IF ns[k].inlet_idx # None THEN {ns[k].inlet_idx} ELSE {}) :
                           k \in { j \in DOMAIN ns : ns[j].type = "tank" } }
        pumps == { k \in DOMAIN ns :
                     /\ ns[k].type = "pump"
                     /\ DictGet(ns[k].pump_params, "P_max", 0) >= PSetMin }
        pumpIdx == { ns[k].matrix_idx : k \in pumps }
    IN [i \in tankIdx \cup pumpIdx |->
          IF i \in tankIdx THEN PAtm
          ELSE LET k == CHOOSE k \in pumps : ns[k].matrix_idx = i
               IN ns[k].pump_params["P_max"]]

\* a search for anchors without the fallback to index 0
FindPressureAnchorsNoFallback(ns) == ExplicitAnchors(ns)

FindPressureAnchors(ns) ==
    IF DOMAIN ExplicitAnchors(ns) = {} THEN [i \in {0} |-> PAtm]
    ELSE ExplicitAnchors(ns)

\* the sum of the first k values of a sequence, in IEEE arithmetic
RECURSIVE FSum(_, _)
FSum(vals, k) ==
    IF k = 0 THEN 0 ELSE FAdd(FSum(vals, k - 1), vals[k])

\* the net flow a pump sends from its OUT into the network, from the flows
\* q[pipe id]: + for a pipe starting at OUT, elif - for one ending there
PumpOutFlow(ps, q, out_idx) ==
    LET term(pipe) == IF pipe.start_idx = out_idx THEN q[pipe.id]
                      ELSE IF pipe.end_idx = out_idx THEN FSub(0, q[pipe.id])
                      ELSE 0
    IN FSum([k \in DOMAIN ps |-> term(ps[k])], Len(ps))

\* 1 where the code adds g to G[a, b], -1 where it subtracts, per statement
PipeStamp(pipe, g, a, b) ==
    LET i == pipe.start_idx
        j == pipe.end_idx
        t1 == IF a = i /\ b = i THEN g ELSE 0
        t2 == IF a = j /\ b = j THEN g ELSE 0
        t3 == IF a = i /\ b = j THEN FSub(0, g) ELSE 0
        t4 == IF a = j /\ b = i THEN FSub(0, g) ELSE 0
    IN FAdd(FAdd(FAdd(t1, t2), t3), t4)

\* an assembly in which the valve or tee at the end of a pipe limits the
\* pipe's conductance to the one seeded for it
AssembleSystemThroughValves(ns, ps, n, gmap, anchors) ==
    LET idx == 0 .. n - 1
        limited(pipe) ==
            LET g == DictGet(gmap, PipeKey(pipe), GDefault)
                key == NodeKey(ns[FindNode(ns, pipe.end_node_id)])
            IN IF key \in DOMAIN gmap /\ ~IsNaN(g) THEN Min2(g, gmap[key]) ELSE g
        entry(a, b) ==
            FSum([k \in DOMAIN ps |-> PipeStamp(ps[k], limited(ps[k]), a, b)], Len(ps))
        flows == [id \in { ps[k].id : k \in DOMAIN ps } |->
                    LET k == CHOOSE k \in DOMAIN ps : ps[k].id = id IN ps[k].flow]
        pumpsAt(i) == { k \in DOMAIN ns : ns[k].type = "pump" /\ ns[k].inlet_idx = i }
        source(i) ==
            IF pumpsAt(i) = {} THEN 0
            ELSE LET k == CHOOSE k \in pumpsAt(i) : TRUE
                 IN FSub(0, PumpOutFlow(ps, flows, ns[k].matrix_idx))
    IN [G |-> [a \in idx |-> [b \in idx |-> entry(a, b)]],
        Q |-> [i \in idx |-> source(i)],
        W |-> [i \in idx |-> IF i \in DOMAIN anchors THEN 1 ELSE 0],
        T |-> [i \in idx |-> IF i \in DOMAIN anchors THEN anchors[i] ELSE 0]]

\* _assemble_system.  The penalty weight 1e6 m3/s/Pa is 1e15 conductance
\* units, beyond the integers of the model, so the system keeps the two
\* orders apart: G and Q hold the pipe and pump terms, W[i] counts the
\* 1e6 added to G[i, i] and T[i] sums the p_val of the 1e6 * p_val added
\* to Q[i].  The assembled matrix is G + 1e6 diag(W), the source vector
\* Q + 1e6 T.
AssembleSystem(ns, ps, n, gmap, anchors) ==
    LET idx == 0 .. n - 1
        entry(a, b) ==
            LET stamp(pipe) == PipeStamp(pipe, DictGet(gmap, PipeKey(pipe), GDefault), a, b)
            IN FSum([k \in DOMAIN ps |-> stamp(ps[k])], Len(ps))
        flows == [id \in { ps[k].id : k \in DOMAIN ps } |->
                    LET k == CHOOSE k \in DOMAIN ps : ps[k].id = id IN ps[k].flow]
        pumpsAt(i) == { k \in DOMAIN ns : ns[k].type = "pump" /\ ns[k].inlet_idx = i }
        source(i) ==
            IF pumpsAt(i) = {} THEN 0
            ELSE LET k == CHOOSE k \in pumpsAt(i) : TRUE
                 IN FSub(0, PumpOutFlow(ps, flows, ns[k].matrix_idx))
    IN [G |-> [a \in idx |-> [b \in idx |-> entry(a, b)]],
        Q |-> [i \in idx |-> source(i)],
        W |-> [i \in idx |-> IF i \in DOMAIN anchors THEN 1 ELSE 0],
        T |-> [i \in idx |-> IF i \in DOMAIN anchors THEN anchors[i] ELSE 0]]


(***************************************************************************)
(* scipy.sparse.linalg.spsolve, by its contract.  The matrix is that of a  *)
(* graph Laplacian plus the penalty diagonal, so it is singular exactly    *)
(* when some connected component of the pipe graph holds no penalised      *)
(* index.  A nonsingular system has one solution; the model returns it in  *)
(* the limit of the penalty weight (a penalised index sits at its target,  *)
(* the other indices solve the Laplacian equations), rounded to the grid.  *)
(***************************************************************************)
HasNaN(sys) ==
    \/ \E a \in DOMAIN sys.G : \E b \in DOMAIN sys.G : IsNaN(sys.G[a][b])
    \/ \E i \in DOMAIN sys.Q : IsNaN(sys.Q[i])

RECURSIVE Component(_, _)
Component(sys, S) ==
    LET S2 == S \cup { j \in DOMAIN sys.G : \E i \in S : i # j /\ sys.G[i][j] # 0 }
    IN IF S2 = S THEN S ELSE Component(sys, S2)

Singular(sys) ==
    \/ HasNaN(sys)
    \/ \E i \in DOMAIN sys.G : \A j \in Component(sys, {i}) : sys.W[j] = 0

RECURSIVE SortedSeq(_)
SortedSeq(S) ==
    IF S = {} THEN <<>>
    ELSE LET m == CHOOSE x \in S : \A y \in S : x <= y
         IN <<m>> \o SortedSeq(S \ {m})

Minor(M, c) ==
    [r \in 1 .. Len(M) - 1 |->
        [k \in 1 .. Len(M) - 1 |-> M[r + 1][IF k < c THEN k ELSE k + 1]]]

RECURSIVE Det(_)
Det(M) ==
    IF Len(M) = 0 THEN 1
    ELSE IF Len(M) = 1 THEN M[1][1]
    ELSE SumSeq([c \in 1 .. Len(M) |->
                    IF M[1][c] = 0 THEN 0
                    ELSE (IF c % 2 = 1 THEN 1 ELSE 0 - 1) * M[1][c] * Det(Minor(M, c))])

\* a / b to the nearest integer, b > 0
RoundDiv(a, b) == (a + b \div 2) \div b

\* the solution of a nonsingular system, as pressures relative to PAtm for
\* the unpenalised indices (Cramer's rule)
spsolve(sys) ==
    LET idx == DOMAIN sys.G
        pinned == { i \in idx : sys.W[i] > 0 }
        target(i) == sys.T[i] \div sys.W[i]
        us == SortedSeq(idx \ pinned)
        m == Len(us)
        A == [r \in 1 .. m |-> [c \in 1 .. m |-> sys.G[us[r]][us[c]]]]
        rhs == [r \in 1 .. m |->
                  sys.Q[us[r]]
                  - SumSeq([k \in 1 .. Cardinality(idx) |->
                              IF (k - 1) \in pinned
                              THEN sys.G[us[r]][k - 1] * (target(k - 1) - PAtm)
                              ELSE 0])]
        detA == Det(A)
        x == [r \in 1 .. m |->
                RoundDiv(Det([rr \in 1 .. m |->
                                [c \in 1 .. m |-> IF c = r THEN rhs[rr] ELSE A[rr][c]]]),
                         detA)]
        pos(i) == CHOOSE r \in 1 .. m : us[r] = i
    IN [i \in idx |-> IF i \in pinned THEN target(i) ELSE PAtm + x[pos(i)]]

(***************************************************************************)
(* lahi_solver.py: audit, residual, update, results                        *)
(***************************************************************************)
\* the pressure drop of a pipe under the pressure vector P
PipeDp(P, pipe) == FSub(P[pipe.start_idx], P[pipe.end_idx])

\* _audit_physics, the flows: q = g_audit * dp per pipe id
AuditFlows(ps, P) ==
    [id \in { ps[k].id : k \in DOMAIN ps } |->
        LET k == CHOOSE k \in DOMAIN ps :
                    ps[k].id = id /\ \A j \in DOMAIN ps : ps[j].id = id => j <= k
            dp == PipeDp(P, ps[k])
        IN FMul(calc_pipe_conductance(ps[k], dp), dp)]

\* _audit_physics, the residuals: -q at the start and +q at the end of
\* every pipe, then -q_actual_out at the IN of every pump
AuditResiduals(ns, ps, n, q) ==
    [i \in 0 .. n - 1 |->
        LET pipeTerm(pipe) ==
                FAdd(IF pipe.start_idx = i THEN FSub(0, q[pipe.id]) ELSE 0,
                     IF pipe.end_idx = i THEN q[pipe.id] ELSE 0)
            pumpsAt == { k \in DOMAIN ns : ns[k].type = "pump" /\ ns[k].inlet_idx = i }
            pumpTerm == IF pumpsAt = {} THEN 0
                        ELSE LET k == CHOOSE k \in pumpsAt : TRUE
                             IN FSub(0, PumpOutFlow(ps, q, ns[k].matrix_idx))
        IN FAdd(FSum([k \in DOMAIN ps |-> pipeTerm(ps[k])], Len(ps)), pumpTerm)]

\* a mask that zeroes every residual
MaskEveryIndex(res, anchors) == [i \in DOMAIN res |-> 0]

\* for idx in anchors.keys(): residuals[idx] = 0.0
MaskAnchors(res, anchors) ==
    [i \in DOMAIN res |-> IF i \in DOMAIN anchors THEN 0 ELSE res[i]]

\* np.linalg.norm(residuals, np.inf): the largest magnitude, NaN if any is
InfNorm(res) ==
    IF \E i \in DOMAIN res : IsNaN(res[i]) THEN NaN
    ELSE IF DOMAIN res = {} THEN 0
    ELSE LET i == CHOOSE i \in DOMAIN res : \A j \in DOMAIN res : Abs(res[i]) >= Abs(res[j])
         IN Abs(res[i])

\* an adaptive step without the floor min_omega and the cap max_omega
AdaptOmegaUnbounded(w, residual_norm, prev) ==
    IF FGt(residual_norm, prev) THEN w \div 2 ELSE (w * 11) \div 10

\* an adaptive step that never halves omega
AdaptOmegaRaisesOnly(w, residual_norm, prev) == Min2(MaxOmega, (w * 11) \div 10)

\* the adaptive step: halve omega if the residual grew, else raise it by 10%
AdaptOmega(w, residual_norm, prev) ==
    IF FGt(residual_norm, prev)
    THEN Max2(MinOmega, w \div 2)
    ELSE Min2(MaxOmega, (w * 11) \div 10)

\* abs(a / b)
AbsDiv(a, b) == IF IsNaN(a) \/ IsNaN(b) THEN NaN ELSE Abs(a) \div Abs(b)

\* _update_conductance: G_target = |q / dp|, or calc_pipe_conductance at
\* 0.5 Pa (0 on the grid) when |dp| < 0.1 Pa;
\* G = (1 - omega) G_old + omega G_target
TargetConductance(pipe, P, q) ==
    LET dp == PipeDp(P, pipe)
    IN IF FLt(FAbs(dp), 1) THEN calc_pipe_conductance(pipe, 0)
       ELSE AbsDiv(q[pipe.id], dp)

Blend(w, g_old, g_target) ==
    IF IsNaN(g_old) \/ IsNaN(g_target) THEN NaN
    ELSE ((OmegaOne - w) * g_old + w * g_target) \div OmegaOne

UpdateConductance(ps, gmap, P, q, w) ==
    LET keys == DOMAIN gmap \cup { PipeKey(ps[k]) : k \in DOMAIN ps }
        last(key) == CHOOSE k \in DOMAIN ps :
                        PipeKey(ps[k]) = key
                        /\ \A j \in DOMAIN ps : PipeKey(ps[j]) = key => j <= k
    IN [key \in keys |->
          IF \E k \in DOMAIN ps : PipeKey(ps[k]) = key
          THEN Blend(w, DictGet(gmap, key, GDefault), TargetConductance(ps[last(key)], P, q))
          ELSE gmap[key]]

\* _format_results
FormatResults(ns, ps, P, q) ==
    LET ids == { ns[k].id : k \in DOMAIN ns }
        node(id) == ns[CHOOSE k \in DOMAIN ns :
                         ns[k].id = id /\ \A j \in DOMAIN ns : ns[j].id = id => j <= k]
        inflow(nd) ==
            LET term(pipe) == IF pipe.end_idx = nd.matrix_idx THEN PyMax(0, q[pipe.id])
                              ELSE IF pipe.start_idx = nd.matrix_idx
                                   THEN PyMax(0, FSub(0, q[pipe.id]))
                                   ELSE 0
            IN FSum([k \in DOMAIN ps |-> term(ps[k])], Len(ps))
    IN [pressures |-> [id \in ids |-> P[node(id).matrix_idx]],
        flows |-> q,
        node_flows |-> [id \in ids |->
                          IF node(id).type = "pump"
                          THEN PumpOutFlow(ps, q, node(id).matrix_idx)
                          ELSE inflow(node(id))]]


(***************************************************************************)
(* The state: one run of CalculationManager.run                            *)
(***************************************************************************)
VARIABLES
    doc,                \* the topology document on disk
    pc,                 \* the statement the run is at
    nodes, pipes,       \* the Node and Pipe objects (graph.nodes, graph.pipes)
    num_total_indices,  \* graph.num_total_indices, None before build
    constructed,        \* whether LAHISolver(graph) has been constructed
    G_map, P, omega,    \* the solver's conductance map, pressures, relaxation
    anchors,            \* the anchors of solve()
    it,                 \* the loop variable of solve()
    prev_residual_norm,
    real_flows, residuals, residual_norm,
    solve_state,        \* Initialized, Iterating, Converged, MaxIterExceeded, Failed
    solve_ret,          \* what solve() returned: [success, results]
    exc,                \* the exception in flight
    response,           \* what run() returned
    ops,                \* how often each step of the run has been executed
    warning_filter,     \* what the process does with a MatrixRankWarning
    previous,           \* the outcome of the run before this one, if any
    call,               \* a call of a conductance function on its own
    editor              \* the editor: its canvas and its TemporaryData

vars == <<doc, pc, nodes, pipes, num_total_indices, constructed, G_map, P, omega,
          anchors, it, prev_residual_norm, real_flows, residuals, residual_norm,
          solve_state, solve_ret, exc, response, ops, warning_filter, previous, call,
          editor>>

graphVars == <<nodes, pipes, num_total_indices>>
loopVars == <<anchors, it, prev_residual_norm>>
auditVars == <<real_flows, residuals, residual_norm>>

Empty == [x \in {} |-> 0]
NoException == [type |-> "", text |-> ""]

OpNames == {"build", "construct", "init_conductance", "find_anchors", "assemble",
            "spsolve", "clamp", "audit", "update", "format_results"}

Did(names) == [o \in OpNames |-> IF o \in names THEN ops[o] + 1 ELSE ops[o]]

\* the messages of the responses of run()
MsgNoFile == "no temporary data file"
MsgEmpty == "no nodes on the canvas"
MsgConverged == "converged"
MsgIterationFailed == "iteration failed, check topology or parameters"
\* "exception during calculation: " + str(e)
ExceptionMsg(e) ==
    IF e.text = "" THEN "exception during calculation: "
    ELSE IF e.text = "math domain error"
         THEN "exception during calculation: math domain error"
    ELSE IF e.text = "float division by zero"
         THEN "exception during calculation: float division by zero"
         ELSE "exception during calculation: Expecting value"

\* the exception object of a raise inside calc_pipe_conductance
PhysicsException(type) ==
    IF type = "ZeroDivisionError"
    THEN [type |-> "ZeroDivisionError", text |-> "float division by zero"]
    ELSE [type |-> "ValueError", text |-> "math domain error"]

\* no call of a conductance function on its own is in progress
NoCall == [fn |-> "none"]

\* the editor on an empty canvas: no point, no line, the first line label
\* free, nothing done yet
EditorStart ==
    [points |-> <<>>, lines |-> <<>>, canvas_lines |-> <<>>, next_line_idx |-> 1,
     last |-> [op |-> "none", label |-> 0, points |-> <<>>, lines |-> <<>>]]

\* the state of a process that is about to call run() for the first time
FirstRun ==
    /\ pc = "run_load"
    /\ nodes = <<>>
    /\ pipes = <<>>
    /\ num_total_indices = None
    /\ constructed = FALSE
    /\ G_map = Empty
    /\ P = Empty
    /\ omega = 0
    /\ anchors = Empty
    /\ it = 0
    /\ prev_residual_norm = Inf
    /\ real_flows = Empty
    /\ residuals = Empty
    /\ residual_norm = 0
    /\ solve_state = "None"
    /\ solve_ret = Empty
    /\ exc = NoException
    /\ response = Empty
    /\ ops = [o \in OpNames |-> 0]
    /\ warning_filter = "unobserved"
    /\ previous = Empty
    /\ editor = EditorStart

\* the document on disk: lines of diameter 40 mm and length 10 m, at most one
\* of them with an end that matches no point; or a single line of negative
\* diameter, a value the line dialog's text field does not exclude; or two
\* points joined by one line whose diameter or length is a zero or is left
\* empty; or a tank and a valve whose opening is a zero or is left empty;
\* or no file; or a file that does not parse
Init ==
    /\ \/ \E ps \in PointLists, ls \in LineLists :
             /\ Cardinality(Unmatched(Len(ps), ls)) <= 1
             /\ doc = Document(ps, ls, JNum(40), JNum(10))
       \/ \E ps \in PointLists, ls \in LineLists :
             /\ Len(ls) = 1
             /\ doc = Document(ps, ls, JStr(<<"-", "4", "0">>), JNum(10))
       \/ \E ps \in PointLists, ls \in LineLists, z \in ZeroValues \cup {Blank} :
             /\ Len(ps) = 2
             /\ Len(ls) = 1
             /\ Unmatched(Len(ps), ls) = {}
             /\ \/ doc = Document(ps, ls, z, JNum(10))
                \/ doc = Document(ps, ls, JNum(40), z)
       \/ \E tank \in { k \in PointKinds : k.ptype = "tank" }, ls \in LineLists,
             v \in ZeroValues \cup {Blank} :
             /\ Unmatched(2, ls) = {}
             /\ doc = Document(<<tank, ValvePoint(v)>>, ls, JNum(40), JNum(10))
       \/ \E f \in {"missing", "malformed"} : doc = NoDocument(f)
    /\ FirstRun
    /\ call = NoCall

(***************************************************************************)
(* manager.py: CalculationManager.run                                      *)
(***************************************************************************)
\* a float() of Node.__init__ or Pipe.__init__ raises on a field of the
\* document: a non-empty text that is no number
FieldRaises(d) ==
    \/ \E k \in DOMAIN d.points :
          Truthy(d.points[k].valve_open) /\ FloatRaises(d.points[k].valve_open)
    \/ d.lines # <<>> /\ Truthy(d.diameter) /\ FloatRaises(d.diameter)
    \/ d.lines # <<>> /\ Truthy(d.length) /\ FloatRaises(d.length)

\* lines 18-20: the data file does not exist
RunNoFile ==
    /\ pc = "run_load"
    /\ doc.file = "missing"
    /\ response' = [success |-> FALSE, msg |-> MsgNoFile]
    /\ pc' = "done"
    /\ UNCHANGED <<doc, editor, call, previous, warning_filter, graphVars, constructed, G_map, P, omega, loopVars, auditVars,
                   solve_state, solve_ret, exc, ops>>

\* lines 22-32: json.load or a float() of Node/Pipe raises on a malformed file
RunLoadRaises ==
    /\ pc = "run_load"
    /\ doc.file = "malformed" \/ (doc.file = "ok" /\ FieldRaises(doc))
    /\ exc' = [type |-> "ValueError", text |-> "Expecting value"]
    /\ pc' = "run_except"
    /\ UNCHANGED <<doc, editor, call, previous, warning_filter, graphVars, constructed, G_map, P, omega, loopVars, auditVars,
                   solve_state, solve_ret, response, ops>>

\* lines 22-32: load the document and convert it to Node and Pipe objects
RunLoad ==
    /\ pc = "run_load"
    /\ doc.file = "ok"
    /\ ~FieldRaises(doc)
    /\ nodes' = [k \in DOMAIN doc.points |-> Node(k, doc.points[k])]
    /\ pipes' = [k \in DOMAIN doc.lines |-> Pipe(k, doc.lines[k], doc.diameter, doc.length)]
    /\ pc' = "run_check"
    /\ UNCHANGED <<doc, editor, call, previous, warning_filter, num_total_indices, constructed, G_map, P, omega, loopVars,
                   auditVars, solve_state, solve_ret, exc, response, ops>>

\* a run that builds the graph of an empty canvas instead of returning
RunEmptyBuilds ==
    /\ pc = "run_check"
    /\ nodes = <<>>
    /\ num_total_indices' = 0
    /\ ops' = Did({"build"})
    /\ pc' = "run_construct"
    /\ UNCHANGED <<doc, editor, call, previous, warning_filter, nodes, pipes, constructed, G_map, P, omega, loopVars, auditVars,
                   solve_state, solve_ret, exc, response>>

\* lines 53-55: the canvas is empty
RunEmpty ==
    /\ pc = "run_check"
    /\ nodes = <<>>
    /\ response' = [success |-> FALSE, msg |-> MsgEmpty]
    /\ pc' = "done"
    /\ UNCHANGED <<doc, editor, call, previous, warning_filter, graphVars, constructed, G_map, P, omega, loopVars, auditVars,
                   solve_state, solve_ret, exc, ops>>

\* a build that drops the pipes it cannot resolve instead of raising
RunBuildSkipsDangling ==
    /\ pc = "run_check"
    /\ nodes # <<>>
    /\ nodes' = AssignIndices(nodes)
    /\ num_total_indices' = TotalIndices(nodes)
    /\ LET resolved(pipe) == ~Dangling(nodes, pipe)
           kept == SelectSeq(pipes, resolved)
       IN pipes' = [k \in DOMAIN kept |-> Redirect(nodes', kept[k])]
    /\ ops' = Did({"build"})
    /\ pc' = "run_construct"
    /\ UNCHANGED <<doc, editor, call, previous, warning_filter, constructed, G_map, P, omega, loopVars, auditVars,
                   solve_state, solve_ret, exc, response>>

\* lines 57-60: graph = NetworkGraph(nodes, pipes); graph.build()
RunBuild ==
    /\ pc = "run_check"
    /\ nodes # <<>>
    /\ nodes' = AssignIndices(nodes)
    /\ num_total_indices' = TotalIndices(nodes)
    /\ pipes' = RedirectPipes(nodes', pipes)
    /\ ops' = Did({"build"})
    /\ IF FirstDangling(nodes, pipes) # 0
       THEN /\ exc' = [type |-> "StopIteration", text |-> ""]
            /\ pc' = "run_except"
       ELSE /\ exc' = exc
            /\ pc' = "run_construct"
    /\ UNCHANGED <<doc, editor, call, previous, warning_filter, constructed, G_map, P, omega, loopVars, auditVars,
                   solve_state, solve_ret, response>>


\* a construction that takes its relaxation factor from the run before
RunConstructSharedOmega ==
    /\ pc = "run_construct"
    /\ constructed' = TRUE
    /\ omega' = IF previous = Empty THEN OmegaInit ELSE MinOmega
    /\ P' = [i \in 0 .. num_total_indices - 1 |-> PAtm]
    /\ G_map' = Empty
    /\ solve_state' = "Initialized"
    /\ ops' = Did({"construct"})
    /\ pc' = "solve_entry"
    /\ UNCHANGED <<doc, editor, call, previous, warning_filter, graphVars, loopVars, auditVars,
                   solve_ret, exc, response>>

\* line 64 and LAHISolver.__init__: solver = LAHISolver(graph)
RunConstruct ==
    /\ pc = "run_construct"
    /\ constructed' = TRUE
    /\ omega' = OmegaInit
    /\ P' = [i \in 0 .. num_total_indices - 1 |-> PAtm]
    /\ G_map' = Empty
    /\ solve_state' = "Initialized"
    /\ ops' = Did({"construct"})
    /\ pc' = "solve_entry"
    /\ UNCHANGED <<doc, editor, call, previous, warning_filter, graphVars, loopVars, auditVars, solve_ret, exc, response>>

(***************************************************************************)
(* lahi_solver.py: LAHISolver.solve                                        *)
(***************************************************************************)
\* lines 58-73: the empty check, _init_conductance, _find_pressure_anchors
SolveEntry ==
    /\ pc = "solve_entry"
    /\ IF num_total_indices = 0
       THEN /\ solve_ret' = [success |-> FALSE, results |-> Empty]
            /\ solve_state' = "Failed"
            /\ pc' = "run_return"
            /\ UNCHANGED <<G_map, loopVars, exc, ops>>
       ELSE IF FirstRaising(pipes, DummyDp) # 0
       THEN \* calc_pipe_conductance raises in the seeding loop
            /\ G_map' = [key \in { PipeKey(pipes[k]) : k \in 1 .. FirstRaising(pipes, DummyDp) - 1 }
                           |-> SeedValue(nodes, pipes, key)]
            /\ exc' = PhysicsException(
                         PipeConductanceError(pipes[FirstRaising(pipes, DummyDp)], DummyDp))
            /\ ops' = Did({"init_conductance"})
            /\ pc' = "run_except"
            /\ UNCHANGED <<loopVars, solve_state, solve_ret>>
       ELSE /\ G_map' = InitConductance(nodes, pipes)
            /\ prev_residual_norm' = Inf
            /\ anchors' = FindPressureAnchors(nodes)
            /\ it' = 0
            /\ solve_state' = "Iterating"
            /\ ops' = Did({"init_conductance", "find_anchors"})
            /\ pc' = "loop"
            /\ UNCHANGED <<exc, solve_ret>>
    /\ UNCHANGED <<doc, editor, call, previous, warning_filter, graphVars, constructed, P, omega, auditVars, response>>

\* a loop that runs one iteration too many
LoopContinuesInclusive == it <= MaxIter

\* line 75: for it in range(self.max_iter)
LoopContinues == it < MaxIter

\* the system of this iteration (line 78)
System == AssembleSystem(nodes, pipes, num_total_indices, G_map, anchors)

\* line 87: self.P = np.maximum(self.P, 100.0)
Clamp(x) == [i \in DOMAIN x |-> NpMaximum(x[i], PFloor)]

\* lines 75-87: assemble, solve a nonsingular system, clamp
LinSolve ==
    /\ pc = "loop"
    /\ LoopContinues
    /\ ~Singular(System)
    /\ P' = Clamp(spsolve(System))
    /\ ops' = Did({"assemble", "spsolve", "clamp"})
    /\ pc' = "audit"
    /\ UNCHANGED <<doc, editor, call, previous, warning_filter, graphVars, constructed, G_map, omega, loopVars, auditVars,
                   solve_state, solve_ret, exc, response>>

\* lines 75-87 on a singular system, or one holding NaN: spsolve warns
\* (MatrixRankWarning) and returns a vector filled with NaN, which the
\* clamp leaves as it is.  Whether the warning is shown or raised is the
\* process's warning filter: it is the same at every solve of the process,
\* and the first singular solve shows which it is.
LinSolveNaN ==
    /\ pc = "loop"
    /\ LoopContinues
    /\ Singular(System)
    /\ warning_filter \in {"unobserved", "warn"}
    /\ warning_filter' = "warn"
    /\ P' = Clamp([i \in 0 .. num_total_indices - 1 |-> NaN])
    /\ ops' = Did({"assemble", "spsolve", "clamp"})
    /\ pc' = "audit"
    /\ UNCHANGED <<doc, editor, call, previous, graphVars, constructed, G_map, omega, loopVars, auditVars,
                   solve_state, solve_ret, exc, response>>

\* lines 83-85 on a singular system: spsolve raises (the warning is turned
\* into an error by the warning filter in force) and solve() returns
LinSolveRaises ==
    /\ pc = "loop"
    /\ LoopContinues
    /\ Singular(System)
    /\ warning_filter \in {"unobserved", "error"}
    /\ warning_filter' = "error"
    /\ solve_ret' = [success |-> FALSE, results |-> Empty]
    /\ solve_state' = "Failed"
    /\ ops' = Did({"assemble", "spsolve"})
    /\ pc' = "run_return"
    /\ UNCHANGED <<doc, editor, call, previous, graphVars, constructed, G_map, P, omega, loopVars, auditVars,
                   exc, response>>

\* lines 90-101: audit, write the flows back to the pipes, mask the anchors,
\* take the norm
Audit ==
    /\ pc = "audit"
    /\ real_flows' = AuditFlows(pipes, P)
    /\ pipes' = [k \in DOMAIN pipes |-> [pipes[k] EXCEPT !.flow = real_flows'[pipes[k].id]]]
    /\ residuals' = MaskAnchors(AuditResiduals(nodes, pipes, num_total_indices, real_flows'),
                                anchors)
    /\ residual_norm' = InfNorm(residuals')
    /\ ops' = Did({"audit"})
    /\ pc' = "check"
    /\ UNCHANGED <<doc, editor, call, previous, warning_filter, nodes, num_total_indices, constructed, G_map, P, omega, loopVars,
                   solve_state, solve_ret, exc, response>>

\* lines 106-113: the residual is below the tolerance
Converged ==
    /\ pc = "check"
    /\ FLt(residual_norm, Tolerance)
    /\ solve_ret' = [success |-> TRUE,
                     results |-> FormatResults(nodes, pipes, P, real_flows)]
    /\ solve_state' = "Converged"
    /\ ops' = Did({"format_results"})
    /\ pc' = "run_return"
    /\ UNCHANGED <<doc, editor, call, previous, warning_filter, graphVars, constructed, G_map, P, omega, loopVars, auditVars,
                   exc, response>>

\* lines 116-124: adapt omega, remember the residual, update the
\* conductances with the new omega; then the loop's next value of it
Update ==
    /\ pc = "check"
    /\ ~FLt(residual_norm, Tolerance)
    /\ omega' = AdaptOmega(omega, residual_norm, prev_residual_norm)
    /\ prev_residual_norm' = residual_norm
    /\ G_map' = UpdateConductance(pipes, G_map, P, real_flows, omega')
    /\ it' = it + 1
    /\ ops' = Did({"update"})
    /\ pc' = "loop"
    /\ UNCHANGED <<doc, editor, call, previous, warning_filter, graphVars, constructed, P, anchors, auditVars,
                   solve_state, solve_ret, exc, response>>

\* a solve that returns the last iteration's values when the loop runs out
SolveMaxIterBestEffort ==
    /\ pc = "loop"
    /\ ~LoopContinues
    /\ solve_ret' = [success |-> FALSE,
                     results |-> FormatResults(nodes, pipes, P, real_flows)]
    /\ solve_state' = "MaxIterExceeded"
    /\ pc' = "run_return"
    /\ UNCHANGED <<doc, editor, call, previous, warning_filter, graphVars, constructed, G_map, P, omega, loopVars, auditVars,
                   exc, response, ops>>

\* lines 126-127: the loop ran max_iter times
SolveMaxIter ==
    /\ pc = "loop"
    /\ ~LoopContinues
    /\ solve_ret' = [success |-> FALSE, results |-> Empty]
    /\ solve_state' = "MaxIterExceeded"
    /\ pc' = "run_return"
    /\ UNCHANGED <<doc, editor, call, previous, warning_filter, graphVars, constructed, G_map, P, omega, loopVars, auditVars,
                   exc, response, ops>>

(***************************************************************************)
(* manager.py: the end of CalculationManager.run                           *)
(***************************************************************************)
\* lines 71-78: the response after solve() returned
RunReturn ==
    /\ pc = "run_return"
    /\ response' = IF solve_ret.success
                   THEN [success |-> TRUE, msg |-> MsgConverged, result |-> solve_ret.results]
                   ELSE [success |-> FALSE, msg |-> MsgIterationFailed]
    /\ pc' = "done"
    /\ UNCHANGED <<doc, editor, call, previous, warning_filter, graphVars, constructed, G_map, P, omega, loopVars, auditVars,
                   solve_state, solve_ret, exc, ops>>

\* a handler that catches ValueError only
CaughtValueError(e) == e.type = "ValueError"

\* `except Exception`: the exception types the handler catches
Caught(e) == e.type \in {"ValueError", "StopIteration", "ZeroDivisionError"}

\* lines 79-82: the handler of run(); an exception it does not catch leaves run()
RunExcept ==
    /\ pc = "run_except"
    /\ IF Caught(exc)
       THEN /\ response' = [success |-> FALSE, msg |-> ExceptionMsg(exc)]
            /\ exc' = NoException
            /\ pc' = "done"
       ELSE /\ pc' = "escaped"
            /\ UNCHANGED <<response, exc>>
    /\ UNCHANGED <<doc, editor, call, previous, warning_filter, graphVars, constructed, G_map, P, omega, loopVars, auditVars,
                   solve_state, solve_ret, ops>>

(***************************************************************************)
(* physics.py called on its own: one call of a conductance function on     *)
(* arguments of the caller's choice                                        *)
(***************************************************************************)
\* pressure drops, in 100 Pa: both signs, zero, small and large
CallPressureDrops == {0 - 1000, 0 - 10, 0 - 1, 0, 1, 10, 1000}
\* diameters in 1e-5 m (zero, the default 4e-5 m, 40 mm, a negative one) and
\* lengths in m
CallDiameters == {0, 4, 4000, 0 - 4000}
CallLengths == {10, 0, 0 - 10}
\* loss coefficients, rated Cv values, openings in percent
CallLossCoefficients == {0 - 1, 0, 1, 2}
CallCvs == {0 - 10, 0, 10}
CallOpenings == {0, 50, 100}

PendingCalls ==
    { [fn |-> "calc_pipe_conductance", pipe |-> [diameter |-> D, length |-> L],
       node |-> [valve_cv |-> 0, valve_open |-> 0], k |-> 0, dP |-> dP,
       done |-> FALSE, raised |-> "", value |-> 0] :
         D \in CallDiameters, L \in CallLengths, dP \in CallPressureDrops }
    \cup
    { [fn |-> "calc_local_conductance", pipe |-> [diameter |-> 4000, length |-> 10],
       node |-> [valve_cv |-> 0, valve_open |-> 0], k |-> k, dP |-> dP,
       done |-> FALSE, raised |-> "", value |-> 0] :
         k \in CallLossCoefficients, dP \in CallPressureDrops }
    \cup
    { [fn |-> "calc_valve_conductance", pipe |-> [diameter |-> 4000, length |-> 10],
       node |-> [valve_cv |-> cv, valve_open |-> op], k |-> 0, dP |-> dP,
       done |-> FALSE, raised |-> "", value |-> 0] :
         cv \in CallCvs, op \in CallOpenings, dP \in CallPressureDrops }

Pending(fn) == call.fn = fn /\ ~call.done

programVars == <<doc, pc, nodes, pipes, num_total_indices, constructed, G_map, P, omega,
                 anchors, it, prev_residual_norm, real_flows, residuals, residual_norm,
                 solve_state, solve_ret, exc, response, ops, warning_filter, previous,
                 editor>>

\* physics.py 68-99
CallPipeConductance ==
    /\ Pending("calc_pipe_conductance")
    /\ call' = IF PipeConductanceRaises(call.pipe, call.dP)
               THEN [call EXCEPT !.done = TRUE,
                                 !.raised = PipeConductanceError(call.pipe, call.dP)]
               ELSE [call EXCEPT !.done = TRUE,
                                 !.value = calc_pipe_conductance(call.pipe, call.dP)]
    /\ UNCHANGED programVars

\* physics.py 101-117
CallLocalConductance ==
    /\ Pending("calc_local_conductance")
    /\ call' = [call EXCEPT !.done = TRUE,
                            !.value = calc_local_conductance(call.k, call.dP)]
    /\ UNCHANGED programVars

\* physics.py 119-135
CallValveConductance ==
    /\ Pending("calc_valve_conductance")
    /\ call' = [call EXCEPT !.done = TRUE,
                            !.value = calc_valve_conductance(call.node, call.dP)]
    /\ UNCHANGED programVars

\* a process that has loaded the module and calls one function of physics.py
PhysicsInit ==
    /\ doc = NoDocument("missing")
    /\ FirstRun
    /\ call \in PendingCalls

PhysicsNext == CallPipeConductance \/ CallLocalConductance \/ CallValveConductance

PhysicsSpec == PhysicsInit /\ [][PhysicsNext]_vars

(***************************************************************************)
(* Repetition: the caller of solve() calls it again on the same solver,    *)
(* the caller of run() calls it again on the same document                 *)
(***************************************************************************)
\* most calls of solve() on one solver
MaxSolves == 2

\* LAHISolver.solve, lines 58-73, called on a solver whose solve() has
\* returned: the seeding rewrites G_map, the anchors are found again; omega,
\* P and the flows on the pipes are what the call before left
SolveAgain ==
    /\ pc = "run_return"
    /\ ops["init_conductance"] < MaxSolves
    /\ G_map' = InitConductance(nodes, pipes)
    /\ prev_residual_norm' = Inf
    /\ anchors' = FindPressureAnchors(nodes)
    /\ it' = 0
    /\ solve_state' = "Iterating"
    /\ solve_ret' = Empty
    /\ ops' = Did({"init_conductance", "find_anchors"})
    /\ pc' = "loop"
    /\ UNCHANGED <<doc, editor, call, previous, warning_filter, graphVars, constructed, P, omega,
                   auditVars, exc, response>>

\* what a run leaves to compare the next one with: its response, the
\* iterations it started, the last pressures and flows of its solver, and
\* the document it ran on
Outcome ==
    [response |-> response, iterations |-> ops["assemble"], pressures |-> P,
     flows |-> real_flows, document |-> doc]

\* CalculationManager.run, called again on the same document by the same
\* process: every object of the run before is dropped (manager.py 31-32, 59,
\* 64 make new ones)
RunAgain ==
    /\ pc = "done"
    /\ previous = Empty
    /\ previous' = Outcome
    /\ pc' = "run_load"
    /\ nodes' = <<>>
    /\ pipes' = <<>>
    /\ num_total_indices' = None
    /\ constructed' = FALSE
    /\ G_map' = Empty
    /\ P' = Empty
    /\ omega' = 0
    /\ anchors' = Empty
    /\ it' = 0
    /\ prev_residual_norm' = Inf
    /\ real_flows' = Empty
    /\ residuals' = Empty
    /\ residual_norm' = 0
    /\ solve_state' = "None"
    /\ solve_ret' = Empty
    /\ exc' = NoException
    /\ response' = Empty
    /\ ops' = [o \in OpNames |-> 0]
    /\ UNCHANGED <<doc, editor, call, warning_filter>>

\* the values the point dialog may give a valve's rated Cv and opening (in
\* percent) and a tee's loss coefficient
RetuneCvs == {10, 20}
RetuneOpenings == {50, 100}
RetuneLossCoefficients == {1, 2}

\* the records a point may be changed to in those fields alone
Retuned(p) ==
    IF p.ptype = "valve"
    THEN { [p EXCEPT !.valve_k = cv, !.valve_open = JNum(op)] :
             cv \in RetuneCvs, op \in RetuneOpenings }
    ELSE IF p.ptype = "tee"
    THEN { [p EXCEPT !.tee_k = k] : k \in RetuneLossCoefficients }
    ELSE {p}

\* the documents that differ from d in valve and tee parameters only
Retunings(d) ==
    { [d EXCEPT !.points = ps] :
        ps \in { f \in [DOMAIN d.points -> UNION { Retuned(d.points[k]) : k \in DOMAIN d.points }] :
                   \A k \in DOMAIN d.points : f[k] \in Retuned(d.points[k]) } } \ {d}

\* a circuit of three points: a tank feeds a constant_flow pump, the pump
\* feeds a valve or a tee, and that returns to the tank
Circuits ==
    { Document(<<t, p, v>>,
               <<[start_label |-> 1, end_label |-> 2], [start_label |-> 2, end_label |-> 3],
                 [start_label |-> 3, end_label |-> 1]>>,
               JNum(40), JNum(10)) :
        t \in { k \in PointKinds : k.ptype = "tank" },
        p \in { k \in PointKinds : k.ptype = "pump" /\ k.pump_type = "gear" },
        v \in { k \in PointKinds : k.ptype \in {"valve", "tee"} } }

\* the documents of the runs with changed parameters: those of the
\* repetitions, and the circuits
RetuneInit ==
    /\ \/ \E ps \in PointLists, ls \in LineLists :
             /\ Len(ps) \in {0, 2}
             /\ Cardinality(Unmatched(Len(ps), ls)) <= 1
             /\ doc = Document(ps, ls, JNum(40), JNum(10))
       \/ doc \in Circuits
       \/ \E f \in {"missing", "malformed"} : doc = NoDocument(f)
    /\ FirstRun
    /\ call = NoCall

\* the user changes valve or tee parameters in the point dialog
\* (designer_area.py 776-808) and run() is called again
RunRetuned ==
    /\ pc = "done"
    /\ previous = Empty
    /\ doc.file = "ok"
    /\ doc' \in Retunings(doc)
    /\ previous' = Outcome
    /\ pc' = "run_load"
    /\ nodes' = <<>>
    /\ pipes' = <<>>
    /\ num_total_indices' = None
    /\ constructed' = FALSE
    /\ G_map' = Empty
    /\ P' = Empty
    /\ omega' = 0
    /\ anchors' = Empty
    /\ it' = 0
    /\ prev_residual_norm' = Inf
    /\ real_flows' = Empty
    /\ residuals' = Empty
    /\ residual_norm' = 0
    /\ solve_state' = "None"
    /\ solve_ret' = Empty
    /\ exc' = NoException
    /\ response' = Empty
    /\ ops' = [o \in OpNames |-> 0]
    /\ UNCHANGED <<editor, call, warning_filter>>

\* the documents of the repetitions: no points or two points, lines of
\* diameter 40 mm and length 10 m of which at most one dangles; or no file;
\* or a file that does not parse
RepeatInit ==
    /\ \/ \E ps \in PointLists, ls \in LineLists :
             /\ Len(ps) \in {0, 2}
             /\ Cardinality(Unmatched(Len(ps), ls)) <= 1
             /\ doc = Document(ps, ls, JNum(40), JNum(10))
       \/ \E f \in {"missing", "malformed"} : doc = NoDocument(f)
    /\ FirstRun
    /\ call = NoCall

(***************************************************************************)
(* The loop of solve() under residual norms of any size: what lines 75-101 *)
(* compute is left open, so that the residual norm of an iteration may     *)
(* grow, shrink, stay or be NaN against the one before                     *)
(***************************************************************************)
\* most iterations of such a solve (max_iter, scaled down)
MaxRounds == 8
\* the norms an audit may give: below the tolerance, two sizes above it, NaN
ResidualNorms == {0, 2 * Tolerance, 3 * Tolerance, NaN}

\* lines 75-101 of an iteration, with the norm of the audited residuals as
\* the only result that is kept
IterateAny ==
    /\ pc = "loop"
    /\ it < MaxRounds
    /\ residual_norm' \in ResidualNorms
    /\ ops' = Did({"assemble", "spsolve", "clamp", "audit"})
    /\ pc' = "check"
    /\ UNCHANGED <<doc, editor, call, previous, warning_filter, graphVars, constructed, G_map, P, omega, loopVars,
                   real_flows, residuals, solve_state, solve_ret, exc, response>>

\* lines 126-127: the loop ran all its iterations
SolveMaxRounds ==
    /\ pc = "loop"
    /\ it >= MaxRounds
    /\ solve_ret' = [success |-> FALSE, results |-> Empty]
    /\ solve_state' = "MaxIterExceeded"
    /\ pc' = "run_return"
    /\ UNCHANGED <<doc, editor, call, previous, warning_filter, graphVars, constructed, G_map, P, omega, loopVars, auditVars,
                   exc, response, ops>>

\* the documents of these solves: one point of any kind and no line
AdaptInit ==
    /\ \E ps \in PointLists : Len(ps) = 1 /\ doc = Document(ps, <<>>, JNum(40), JNum(10))
    /\ FirstRun
    /\ call = NoCall

(***************************************************************************)
(* The editor: the canvas of GridWidget and its TemporaryData.  A point is *)
(* the record of its label and its place; label n is the string "P" + n,   *)
(* and label 0 the empty string.  Places are positions on the canvas at    *)
(* least two point radii apart, and every click lands on a place.  A       *)
(* stored line is its label ("L" + n) with start_label and end_label; a    *)
(* line of the canvas carries the places of its ends instead.              *)
(* self._points is the list self.temp_data.data["points"] itself           *)
(* (designer_area.py 136), so editor.points is both.  editor.last is the   *)
(* last operation with the stored points and lines it found.               *)
(***************************************************************************)
MaxCanvasPoints == 3    \* bound: most points on the canvas
MaxLineIdx == 2         \* bound: the highest line label given out

\* the places of the canvas that are clicked
Places == 1 .. 3

\* the position of the first element of s that passes the test, 0 if none
FirstWith(s, Test(_)) ==
    IF \E k \in DOMAIN s : Test(s[k])
    THEN CHOOSE k \in DOMAIN s : Test(s[k]) /\ \A j \in 1 .. (k - 1) : ~Test(s[j])
    ELSE 0

\* _hit_point: the first point within 1.1 radii of the click
HitPoint(points, x) ==
    LET At(p) == p.place = x
    IN  FirstWith(points, At)

\* _find_point_label: the label of the first point at the coordinates
FindPointLabel(points, x) ==
    LET k == HitPoint(points, x)
    IN  IF k = 0 THEN 0 ELSE points[k].label

\* _find_point_by_label
FindPointByLabel(points, label) ==
    LET Has(p) == p.label = label
    IN  FirstWith(points, Has)

\* upsert_point: the first record of that label is replaced, else appended
upsert_point(points, point) ==
    LET k == FindPointByLabel(points, point.label)
    IN  IF point.label = 0 THEN points
        ELSE IF k # 0 THEN [points EXCEPT ![k] = point]
        ELSE Append(points, point)

\* upsert_line
upsert_line(lines, line) ==
    LET Has(ln) == ln.label = line.label
        k == FirstWith(lines, Has)
    IN  IF line.label = 0 THEN lines
        ELSE IF k # 0 THEN [lines EXCEPT ![k] = line]
        ELSE Append(lines, line)

\* a delete_point that filters the points only
delete_point_only(points, lines, label) ==
    LET KeepPoint(p) == p.label # label
    IN  [points |-> SelectSeq(points, KeepPoint), lines |-> lines]

\* delete_point: the points and the lines that remain
delete_point(points, lines, label) ==
    LET KeepPoint(p) == p.label # label
        KeepLine(ln) == ln.start_label # label /\ ln.end_label # label
    IN  [points |-> SelectSeq(points, KeepPoint),
         lines |-> SelectSeq(lines, KeepLine)]

\* delete_line
delete_line(lines, label) ==
    LET KeepLine(ln) == ln.label # label
    IN  SelectSeq(lines, KeepLine)

\* load_from_temp: the lines of the canvas are the stored lines whose two
\* ends are found, at the places of those ends; the next line label is one
\* more than the highest label among them
load_from_temp(points, lines) ==
    LET Found(ln) == /\ FindPointByLabel(points, ln.start_label) # 0
                     /\ FindPointByLabel(points, ln.end_label) # 0
        found == SelectSeq(lines, Found)
        Drawn(ln) == [label |-> ln.label,
                      start |-> points[FindPointByLabel(points, ln.start_label)].place,
                      end |-> points[FindPointByLabel(points, ln.end_label)].place]
        idx == {found[k].label : k \in DOMAIN found} \cup {0}
    IN  [canvas_lines |-> [k \in DOMAIN found |-> Drawn(found[k])],
         next_line_idx |-> (CHOOSE m \in idx : \A n \in idx : n <= m) + 1]

\* what the editor found before its last operation
Last(op, label) ==
    [op |-> op, label |-> label, points |-> editor.points, lines |-> editor.lines]

\* the variables of run() and of the calls of physics.py
solverVars == <<doc, call, pc, graphVars, constructed, G_map, P, omega, loopVars,
                auditVars, solve_state, solve_ret, exc, response, ops,
                warning_filter, previous>>

\* mousePressEvent in add-point mode, at a place no point is too near to
AddPoint ==
    /\ Len(editor.points) < MaxCanvasPoints
    /\ \E x \in Places :
          /\ HitPoint(editor.points, x) = 0
          /\ LET label == Len(editor.points) + 1
                 new_point == [label |-> label, place |-> x]
             IN  editor' = [editor EXCEPT
                    !.points = upsert_point(Append(editor.points, new_point), new_point),
                    !.last = Last("add_point", label)]
    /\ UNCHANGED solverVars

\* mousePressEvent in delete mode on a point
DeletePoint ==
    /\ \E x \in Places :
          /\ HitPoint(editor.points, x) # 0
          /\ LET label == editor.points[HitPoint(editor.points, x)].label
                 data == delete_point(editor.points, editor.lines, label)
                 canvas == load_from_temp(data.points, data.lines)
             IN  editor' = [points |-> data.points, lines |-> data.lines,
                            canvas_lines |-> canvas.canvas_lines,
                            next_line_idx |-> canvas.next_line_idx,
                            last |-> Last("delete_point", label)]
    /\ UNCHANGED solverVars

\* mousePressEvent in delete mode on a line, away from every point
DeleteLine ==
    /\ \E k \in DOMAIN editor.canvas_lines :
          LET label == editor.canvas_lines[k].label
              lines == delete_line(editor.lines, label)
              canvas == load_from_temp(editor.points, lines)
          IN  editor' = [editor EXCEPT
                 !.lines = lines,
                 !.canvas_lines = canvas.canvas_lines,
                 !.next_line_idx = canvas.next_line_idx,
                 !.last = Last("delete_line", label)]
    /\ UNCHANGED solverVars

\* mouseReleaseEvent in connect mode: a press on one point and a release on
\* another, not yet joined on the canvas in either direction
Connect ==
    /\ editor.next_line_idx <= MaxLineIdx
    /\ \E x, y \in Places :
          LET s == HitPoint(editor.points, x)
              e == HitPoint(editor.points, y)
              label == editor.next_line_idx
              Joins(ln) == \/ ln.start = x /\ ln.end = y
                           \/ ln.start = y /\ ln.end = x
              base == [label |-> label,
                       start_label |-> FindPointLabel(editor.points, x),
                       end_label |-> FindPointLabel(editor.points, y)]
          IN  /\ s # 0
              /\ e # 0
              /\ e # s
              /\ FirstWith(editor.canvas_lines, Joins) = 0
              /\ editor' = [editor EXCEPT
                    !.lines = upsert_line(editor.lines, base),
                    !.canvas_lines = Append(editor.canvas_lines,
                                            [label |-> label, start |-> x, end |-> y]),
                    !.next_line_idx = label + 1,
                    !.last = Last("connect", label)]
    /\ UNCHANGED solverVars

\* the editor opened where no topology document exists: TemporaryData
\* writes an empty one (temporary_data.py 26-27)
EditorInit ==
    /\ doc = Document(<<>>, <<>>, Blank, Blank)
    /\ FirstRun
    /\ call = NoCall

Next ==
    \/ RunNoFile \/ RunLoadRaises \/ RunLoad \/ RunEmpty \/ RunBuild \/ RunConstruct
    \/ SolveEntry
    \/ LinSolve \/ LinSolveNaN \/ LinSolveRaises \/ Audit
    \/ Converged \/ Update \/ SolveMaxIter
    \/ RunReturn \/ RunExcept

Spec == Init /\ [][Next]_vars

ResolveNext == Next \/ SolveAgain
\* runs in which solve() may be called again on the same solver
ResolveSpec == RepeatInit /\ [][ResolveNext]_vars

RerunNext == Next \/ RunAgain
\* runs after which run() may be called again on the same document
RerunSpec == RepeatInit /\ [][RerunNext]_vars

RetuneNext == Next \/ RunRetuned
\* runs after which run() may be called again with other valve and tee
\* parameters
RetuneSpec == RetuneInit /\ [][RetuneNext]_vars

AdaptNext ==
    \/ RunLoad \/ RunBuild \/ RunConstruct \/ SolveEntry
    \/ IterateAny \/ Converged \/ Update \/ SolveMaxRounds
    \/ RunReturn
\* runs whose solve() meets residual norms of any size
AdaptSpec == AdaptInit /\ [][AdaptNext]_vars

EditorNext == AddPoint \/ DeletePoint \/ DeleteLine \/ Connect
EditorSpec == EditorInit /\ [][EditorNext]_vars

\* the statements run() can be at, and those at which it has ended
PcValues == {"run_load", "run_check", "run_construct", "solve_entry", "loop", "audit",
             "check", "run_return", "run_except", "done", "escaped"}
Halted == {"done", "escaped"}

\* run() moves on to another statement
Proceeds == pc \notin Halted /\ pc' \in PcValues \ {pc}

\* run() is one sequential call: until it has ended it takes its next step.
\* Every step of Next changes pc and some step is possible at every pc
\* outside Halted, so this is weak fairness of Next.
FairSpec == Spec /\ WF_pc(Proceeds)


(***************************************************************************)
(* Properties of CalculationManager.run and NetworkGraph.build             *)
(***************************************************************************)
\* the document names, in some line, a label that no point carries
HasDanglingLine == doc.file = "ok" /\ Unmatched(Len(doc.points), doc.lines) # {}

\* the steps of LAHISolver: construction and everything solve() does
SolverOps == OpNames \ {"build"}

\* C1: when some line's start_label or end_label matches no point, build()
\* raises at that pipe (StopIteration out of next()), run() returns a
\* failure result, and the solver is never constructed nor run.  (On an
\* empty canvas run() returns before build() is called.)
C1_DanglingPipeStopsRun ==
    HasDanglingLine =>
        /\ ~constructed
        /\ solve_state = "None"
        /\ \A o \in SolverOps : ops[o] = 0
        /\ ops["build"] > 0 => pc \in {"run_except", "done"}
        /\ pc = "run_except" => (ops["build"] = 1 /\ exc.type = "StopIteration")
        /\ pc = "done" => (~response.success /\ "result" \notin DOMAIN response)

\* a run on a document whose second line dangles has ended: the first pipe was
\* redirected, the build raised at the second, the response is the handler's
C1_Witness ==
    /\ HasDanglingLine
    /\ pc = "done"
    /\ ops["build"] = 1
    /\ Len(pipes) = 2
    /\ FirstDangling(nodes, pipes) = 2
    /\ pipes[1].start_idx # None
    /\ pipes[2].start_idx = None
    /\ response = [success |-> FALSE, msg |-> ExceptionMsg([type |-> "StopIteration", text |-> ""])]

\* C2: with zero nodes the run fails fast with the empty-topology failure:
\* no build, no seeding, no assembly, no linear solve, no results.
C2_EmptyTopologyFailsFast ==
    (doc.file = "ok" /\ doc.points = <<>>) =>
        /\ \A o \in OpNames : ops[o] = 0
        /\ ~constructed
        /\ G_map = Empty
        /\ pc \in {"run_load", "run_check", "done"}
        /\ pc = "done" => response = [success |-> FALSE, msg |-> MsgEmpty]

\* the run on a document without points (but with a line) has returned
C2_Witness ==
    /\ doc.file = "ok"
    /\ doc.points = <<>>
    /\ doc.lines # <<>>
    /\ pc = "done"
    /\ response.msg = MsgEmpty

\* C3: no exception leaves run(): whatever the document, run() ends by
\* returning a result with a success flag and a message.
C3_NoExceptionEscapes ==
    /\ pc # "escaped"
    /\ pc = "done" =>
          /\ {"success", "msg"} \subseteq DOMAIN response
          /\ response.success \in BOOLEAN
          /\ response.msg # ""
          /\ exc = NoException

\* an exception raised inside solve() (the seeding of a pipe of negative
\* diameter) has been turned into a failure result
C3_Witness ==
    /\ pc = "done"
    /\ constructed
    /\ ops["init_conductance"] = 1
    /\ response = [success |-> FALSE,
                   msg |-> ExceptionMsg([type |-> "ValueError", text |-> "math domain error"])]

\* C4: the failure result tells its cause: the message given when the
\* iteration cap is exceeded is given for no other cause, in particular
\* not when the linear solve failed, and the empty-topology message is
\* given for an empty topology only.
C4_CauseDistinguished ==
    (pc = "done" /\ ~response.success) =>
        /\ response.msg = MsgIterationFailed => solve_state = "MaxIterExceeded"
        /\ response.msg = MsgEmpty => nodes = <<>>

\* C5: when none of the max_iter iterations brings the residual below the
\* tolerance, solve() returns failure with an empty result and the response
\* of run() carries no pressures or flows.
C5_NonConvergenceReturnsNothing ==
    (it = MaxIter /\ pc \in {"run_return", "done"}) =>
        /\ solve_ret = [success |-> FALSE, results |-> Empty]
        /\ pc = "done" => (~response.success /\ DOMAIN response = {"success", "msg"})

\* max_iter iterations were audited, each with a finite residual at or above
\* the tolerance, and run() has returned
C5_Witness ==
    /\ pc = "done"
    /\ it = MaxIter
    /\ ops["audit"] = MaxIter
    /\ ~IsNaN(residual_norm)
    /\ residual_norm >= Tolerance
    /\ ~response.success

\* C6: when the linear solve of an iteration fails (the assembled system is
\* singular), solve() returns failure with no results in that iteration:
\* the clamp does not run, so the run is never at the audit of an
\* iteration whose system was singular, and no later step runs either.
C6_SingularSolveAborts ==
    /\ pc = "audit" => ~Singular(System)
    /\ solve_state = "Failed" =>
          /\ solve_ret = [success |-> FALSE, results |-> Empty]
          /\ ops["clamp"] = ops["spsolve"] - 1
          /\ ops["audit"] = ops["clamp"]
          /\ ops["update"] = ops["audit"]

(***************************************************************************)
(* Properties of LAHISolver.solve                                          *)
(***************************************************************************)
TerminalStates == {"Converged", "MaxIterExceeded", "Failed"}

\* solve() has returned
SolveReturned == DOMAIN solve_ret # {}

\* a step from a terminal state keeps it, executes nothing, iterates no more
TerminalIsKept ==
    solve_state \in TerminalStates =>
        (solve_state' = solve_state /\ ops' = ops /\ it' = it)

\* what holds of every solve(), however it is left: at most max_iter
\* iterations are started; solve() has returned exactly when it is in a
\* terminal state, which is Converged exactly when it returned success;
\* and nothing is executed, and the state is kept, once it is terminal
SolveSafety ==
    /\ [](ops["assemble"] <= MaxIter /\ it <= MaxIter)
    /\ [](SolveReturned <=> solve_state \in TerminalStates)
    /\ [](SolveReturned => (solve_ret.success <=> solve_state = "Converged"))
    /\ [](solve_state \in TerminalStates => pc \in {"run_return", "done"})
    /\ [][TerminalIsKept]_vars

NetFlow(q, i) ==
    LET into == FSum([k \in DOMAIN pipes |->
                        IF pipes[k].end_idx = i THEN q[pipes[k].id] ELSE 0], Len(pipes))
        outof == FSum([k \in DOMAIN pipes |->
                        IF pipes[k].start_idx = i THEN q[pipes[k].id] ELSE 0], Len(pipes))
        pumpsAt == { k \in DOMAIN nodes : nodes[k].type = "pump" /\ nodes[k].inlet_idx = i }
        pumped == IF pumpsAt = {} THEN 0
                  ELSE PumpOutFlow(pipes, q, nodes[CHOOSE k \in pumpsAt : TRUE].matrix_idx)
    IN FSub(FSub(into, outof), pumped)

\* C8: whenever solve() returns success, the net flow of the returned
\* (audited) flows at every logical index that is not an anchor is below
\* the tolerance in magnitude; only the anchor indices are exempt.
C8_MassConservation ==
    solve_state = "Converged" =>
        \A i \in (0 .. num_total_indices - 1) \ DOMAIN anchors :
            FLt(FAbs(NetFlow(solve_ret.results.flows, i)), Tolerance)

\* a converged solve in which a pipe carries flow into an index that is no
\* anchor (the IN of a pump)
C8_Witness ==
    /\ solve_state = "Converged"
    /\ \E i \in (0 .. num_total_indices - 1) \ DOMAIN anchors :
          \E k \in DOMAIN pipes :
             /\ pipes[k].end_idx = i
             /\ ~IsNaN(real_flows[pipes[k].id])
             /\ real_flows[pipes[k].id] > 0

\* the logical indices node k owns
Owned(k) ==
    {nodes[k].matrix_idx} \cup (IF nodes[k].inlet_idx = None THEN {} ELSE {nodes[k].inlet_idx})

\* C9: after build() every pump and tank owns two indices (inlet_idx and
\* matrix_idx), every other node one (matrix_idx, no inlet_idx); the owned
\* indices are pairwise distinct and are exactly 0 .. num_total_indices-1,
\* so num_total_indices = nodes + pumps + tanks.
C9_IndexAllocation ==
    ops["build"] > 0 =>
        /\ \A k \in DOMAIN nodes :
              Cardinality(Owned(k)) = IF nodes[k].type \in {"pump", "tank"} THEN 2 ELSE 1
        /\ \A k \in DOMAIN nodes :
              nodes[k].type \notin {"pump", "tank"} => nodes[k].inlet_idx = None
        /\ \A k, j \in DOMAIN nodes : k # j => Owned(k) \cap Owned(j) = {}
        /\ UNION { Owned(k) : k \in DOMAIN nodes } = 0 .. num_total_indices - 1
        /\ num_total_indices =
              Len(nodes) + Cardinality({ k \in DOMAIN nodes : nodes[k].type \in {"pump", "tank"} })

\* a built graph whose first node is a tank and whose second is a plain one
C9_Witness ==
    /\ ops["build"] = 1
    /\ Len(nodes) = 2
    /\ nodes[1].type = "tank"
    /\ nodes[2].type = "normal"
    /\ num_total_indices = 3

\* build() has returned without raising: the graph goes to the solver
BuildCompleted == pc = "run_construct" \/ constructed

\* C10: after a build() that raised nothing, every pipe's start_idx and
\* end_idx are logical indices in [0, num_total_indices): the graph that
\* reaches the solver holds no pipe with an unresolved end.
C10_PipeIndicesValid ==
    BuildCompleted =>
        \A k \in DOMAIN pipes :
            /\ pipes[k].start_idx \in 0 .. num_total_indices - 1
            /\ pipes[k].end_idx \in 0 .. num_total_indices - 1

\* the solver holds a graph of two pipes, one ending at a plain node and one
\* at the IN of a tank
C10_Witness ==
    /\ constructed
    /\ Len(pipes) = 2
    /\ \E k \in DOMAIN nodes : nodes[k].type = "tank" /\ pipes[1].end_idx = nodes[k].inlet_idx
    /\ \E k \in DOMAIN nodes : nodes[k].type = "normal" /\ pipes[2].end_idx = nodes[k].matrix_idx

\* the node of the built graph that carries a label
NodeOf(label) == nodes[FindNode(nodes, label)]

\* the logical indices of node nd, as build() hands them out: a pump or a
\* tank has its inlet first and its outlet (matrix_idx) right after it, any
\* other node has one index
InletOf(nd) == IF nd.type \in {"pump", "tank"} THEN nd.matrix_idx - 1 ELSE nd.matrix_idx
OutletOf(nd) == nd.matrix_idx

\* C11: after build(), every pipe ends at the inlet index of its end node
\* when that node is a pump or a tank and at the node's single index
\* otherwise, and starts at the outlet (matrix_idx) index of its start node,
\* also when the start node is a pump or a tank.
C11_EndpointRedirection ==
    BuildCompleted =>
        \A k \in DOMAIN pipes :
            /\ pipes[k].start_idx = OutletOf(NodeOf(pipes[k].start_node_id))
            /\ pipes[k].end_idx = InletOf(NodeOf(pipes[k].end_node_id))
            /\ NodeOf(pipes[k].end_node_id).type \in {"pump", "tank"}
                  => pipes[k].end_idx = NodeOf(pipes[k].end_node_id).inlet_idx
            /\ NodeOf(pipes[k].start_node_id).type \in {"pump", "tank"}
                  => pipes[k].start_idx # NodeOf(pipes[k].start_node_id).inlet_idx

\* the solver holds a graph with a pipe from a pump to a tank and a pipe
\* from that tank back to the pump
C11_Witness ==
    /\ constructed
    /\ Len(pipes) = 2
    /\ NodeOf(pipes[1].start_node_id).type = "pump"
    /\ NodeOf(pipes[1].end_node_id).type = "tank"
    /\ pipes[1].start_idx = 1
    /\ pipes[1].end_idx = 2
    /\ pipes[2].start_idx = 3
    /\ pipes[2].end_idx = 0

(***************************************************************************)
(* Properties of LAHISolver._find_pressure_anchors                         *)
(***************************************************************************)
\* solve() has computed its anchors
AnchorsFound == ops["find_anchors"] > 0

\* C12: for every topology with at least one node the anchor set computed
\* before the first assembly is non-empty and every anchor is a logical
\* index in [0, num_total_indices); no assembly runs without an anchor.
C12_AnchorsNonEmpty ==
    /\ ops["assemble"] > 0 => AnchorsFound
    /\ pc \in {"loop", "audit", "check"} => AnchorsFound
    /\ AnchorsFound =>
          /\ Len(nodes) >= 1
          /\ DOMAIN anchors # {}
          /\ DOMAIN anchors \subseteq 0 .. num_total_indices - 1

\* a system was assembled for a topology of two nodes without tank or pump:
\* its one anchor is index 0 at atmospheric pressure
C12_Witness ==
    /\ ops["assemble"] > 0
    /\ Len(nodes) = 2
    /\ \A k \in DOMAIN nodes : nodes[k].type \notin {"tank", "pump"}
    /\ anchors = [i \in {0} |-> PAtm]

\* C13: the anchors hold both indices of every tank at 101325 Pa and the
\* outlet index of every pump, whatever its mode; the target of a
\* constant_flow pump is its set pressure P_max.
C13_AnchorsCoverTanksAndPumps ==
    AnchorsFound =>
        \A k \in DOMAIN nodes :
            /\ nodes[k].type = "tank" =>
                  /\ {nodes[k].inlet_idx, nodes[k].matrix_idx} \subseteq DOMAIN anchors
                  /\ anchors[nodes[k].inlet_idx] = PAtm
                  /\ anchors[nodes[k].matrix_idx] = PAtm
            /\ nodes[k].type = "pump" =>
                  /\ nodes[k].matrix_idx \in DOMAIN anchors
                  /\ nodes[k].pump_mode = "constant_flow"
                        => anchors[nodes[k].matrix_idx] = nodes[k].pump_params["P_max"]

\* the positions of the pumps and of the other nodes, in input order
PumpPositions == { k \in DOMAIN nodes : nodes[k].type = "pump" }
OtherPositions == DOMAIN nodes \ PumpPositions
First(S) == CHOOSE k \in S : \A j \in S : k <= j

\* the reference the fallback is to take: the inlet of the first pump, or,
\* without a pump, the index of the first node
FallbackIndex ==
    IF PumpPositions # {} THEN nodes[First(PumpPositions)].inlet_idx
    ELSE nodes[First(OtherPositions)].matrix_idx

\* C14: when there is no explicit anchor (no tank, no pump outlet with a
\* set pressure), the one anchor is the first pump's inlet index if the
\* topology holds a pump and else the first non-pump node's index, at
\* atmospheric pressure, whatever the order of the nodes in the input.
C14_FallbackReference ==
    (AnchorsFound /\ DOMAIN ExplicitAnchors(nodes) = {}) =>
        anchors = [i \in {FallbackIndex} |-> PAtm]

(***************************************************************************)
(* Properties of physics.py                                                *)
(***************************************************************************)
\* the call has returned a value
Returned == call.fn # "none" /\ call.done /\ call.raised = ""

ClosedValves ==
    { k \in DOMAIN doc.points :
        doc.points[k].ptype = "valve" /\ doc.points[k].valve_open \in ZeroValues }

\* C16: a valve ingested with an opening of 0 % has the opening fraction 0,
\* so its effective Cv is 0, and the conductance seeded for it is the floor
\* constant, not the conductance of an open valve.
C16_ClosedValveFloors ==
    \A k \in ClosedValves :
        /\ k \in DOMAIN nodes => nodes[k].valve_cv * nodes[k].valve_open = 0
        /\ (k \in DOMAIN nodes /\ NodeKey(nodes[k]) \in DOMAIN G_map)
              => G_map[NodeKey(nodes[k])] = GFloor

\* the document holds a line and its diameter or its length is zero
ZeroGeometry ==
    /\ doc.file = "ok"
    /\ doc.lines # <<>>
    /\ doc.diameter \in ZeroValues \/ doc.length \in ZeroValues

\* C17: a pipe record whose diameter or length is exactly zero is rejected at
\* ingestion: the run fails with a cause, and neither the graph nor the
\* solver ever works on a value put in the place of the zero.
C17_ZeroGeometryRejected ==
    ZeroGeometry =>
        /\ \A o \in OpNames : ops[o] = 0
        /\ ~constructed
        /\ pc = "done" => ~response.success

(***************************************************************************)
(* Properties of repeated solves                                           *)
(***************************************************************************)
\* a solve() is about to start its first iteration
SolveStarts == pc = "loop" /\ it = 0

\* C18: no mutable solver state outlives a solve(): every solve() on a
\* solver, the second as the first, starts from the relaxation factor 0.5,
\* from pipes that carry no flow, from the seeded conductance map and from
\* the pressure vector of the construction.
C18_SolveStartsFresh ==
    SolveStarts =>
        /\ omega = OmegaInit
        /\ \A k \in DOMAIN pipes : pipes[k].flow = 0
        /\ G_map = InitConductance(nodes, pipes)
        /\ P = [i \in 0 .. num_total_indices - 1 |-> PAtm]

\* run() has returned for the second time
SecondRunDone == pc = "done" /\ previous # Empty

SinglePump ==
    /\ Cardinality(PumpPositions) = 1
    /\ nodes[First(PumpPositions)].pump_mode = "constant_flow"

\* the pipes through which the pump feeds a tank: from the pump's outlet to
\* the inlet of a tank
FeedPipes ==
    { k \in DOMAIN pipes :
        /\ pipes[k].start_idx = nodes[First(PumpPositions)].matrix_idx
        /\ \E t \in DOMAIN nodes : nodes[t].type = "tank" /\ pipes[k].end_idx = nodes[t].inlet_idx }

\* C20: when a single constant_flow pump feeds one pipe into a tank, every
\* converged result reports, for that pipe, the pump's source flow Q_source
\* (within the tolerance).
C20_PumpDeliversSourceFlow ==
    (solve_state = "Converged" /\ SinglePump) =>
        \A k \in FeedPipes :
            FLt(FAbs(FSub(solve_ret.results.flows[pipes[k].id],
                          nodes[First(PumpPositions)].pump_params["Q_source"])),
                Tolerance)


(***************************************************************************)
(* Properties of the linear prediction step: anchors and clamp             *)
(***************************************************************************)
\* C21: anchor fidelity: in every converged result the solved pressure at
\* each anchor index is the anchor's target pressure (within a relative
\* error of 1e-6, which is below one unit of the pressure grid), whatever
\* pipes and pump source terms are attached to the anchor.
C21_AnchorFidelity ==
    solve_state = "Converged" =>
        \A i \in DOMAIN anchors : ~IsNaN(P[i]) /\ P[i] = anchors[i]

\* the pressure x is a number and is at least the clamp's floor of 100 Pa
AtLeastFloor(x) == ~IsNaN(x) /\ x >= PFloor

\* C22: after the clamp of every iteration every entry of the pressure
\* vector is at least 100 Pa, so every pressure the audit and the
\* conductance update use, and every pressure reported in a successful
\* result, is at least 100 Pa.
C22_PressureFloor ==
    /\ pc \in {"audit", "check"} => \A i \in DOMAIN P : AtLeastFloor(P[i])
    /\ solve_state = "Converged" =>
          \A id \in DOMAIN solve_ret.results.pressures :
              AtLeastFloor(solve_ret.results.pressures[id])

(***************************************************************************)
(* Properties of the adaptive relaxation                                   *)
(***************************************************************************)
\* solve() is running: from its entry to its return
InSolve == pc \in {"solve_entry", "loop", "audit", "check"}

\* the iteration just audited does not converge
NotConverging == pc = "check" /\ ~FLt(residual_norm, Tolerance)

\* the residual norm grew, shrank, against that of the iteration before
\* (against infinity in the first iteration)
ResidualGrew == FGt(residual_norm, prev_residual_norm)
ResidualShrank == FLt(residual_norm, prev_residual_norm)

\* what a step of solve() does to omega
AdaptsAsStated ==
    InSolve =>
        /\ (NotConverging /\ ResidualGrew) => omega' = Max2(MinOmega, omega \div 2)
        /\ (NotConverging /\ ResidualShrank)
              => omega' = Min2(MaxOmega, (omega * 11) \div 10)
        /\ omega' # omega => NotConverging

\* C23: in every iteration that does not converge, omega becomes
\* max(min_omega, omega / 2) if the residual norm grew against the previous
\* iteration and min(max_omega, 1.1 omega) if it shrank; no other step of a
\* solve changes omega.
C23_RelaxationAdaptation == [][AdaptsAsStated]_vars

\* the second iteration's residual grew: omega went from 0.5 to 0.55 after
\* the first iteration and was halved after the second
C23_Witness ==
    /\ pc = "loop"
    /\ it = 2
    /\ FGt(prev_residual_norm, Tolerance)
    /\ omega = Max2(MinOmega, (Min2(MaxOmega, (OmegaInit * 11) \div 10)) \div 2)

\* C29: in every state of a solve() started on a freshly constructed solver
\* the relaxation factor lies between min_omega and max_omega
\* (0.05 <= omega <= 0.9), whatever the sequence of residual increases and
\* decreases.
C29_OmegaWithinBounds ==
    constructed => (MinOmega <= omega /\ omega <= MaxOmega)

\* the residual shrank often enough for the cap to act: 1.1 omega exceeded
\* max_omega and omega was set to max_omega
C29_Witness ==
    /\ pc = "loop"
    /\ solve_state = "Iterating"
    /\ it >= 7
    /\ omega = MaxOmega

(***************************************************************************)
(* Properties of LAHISolver._assemble_system                               *)
(***************************************************************************)
\* an iteration is about to assemble its system
Assembling == pc = "loop" /\ LoopContinues

\* the flow each pipe carries (pipe.flow), by pipe id
PipeFlows ==
    [id \in { pipes[k].id : k \in DOMAIN pipes } |->
        pipes[CHOOSE k \in DOMAIN pipes : pipes[k].id = id].flow]

\* the current flow of the pump at position k: what it sends from its
\* outlet into the network
PumpFlow(k) == PumpOutFlow(pipes, PipeFlows, nodes[k].matrix_idx)

\* C24: in the assembled source vector every pump injects its current flow q
\* at its outlet index (+q) and withdraws it at its inlet index (-q), so the
\* two source terms of a pump sum to zero.
C24_PumpSourceBalanced ==
    Assembling =>
        \A k \in PumpPositions :
            /\ System.Q[nodes[k].matrix_idx] = PumpFlow(k)
            /\ System.Q[nodes[k].inlet_idx] = FSub(0, PumpFlow(k))
            /\ FAdd(System.Q[nodes[k].matrix_idx], System.Q[nodes[k].inlet_idx]) = 0

\* the conductance the assembly takes for a pipe
StoredConductance(pipe) == DictGet(G_map, PipeKey(pipe), GDefault)

\* the sum of the conductances of the pipes that satisfy a test
ConductanceSum(test(_)) ==
    FSum([k \in DOMAIN pipes |-> IF test(pipes[k]) THEN StoredConductance(pipes[k]) ELSE 0],
         Len(pipes))

\* the entry the graph-Laplacian pattern gives G[a, b]: on the diagonal the
\* conductances of the pipes at a, off it minus those of the pipes that
\* join a and b
LaplacianEntry(a, b) ==
    LET at(pipe) == (pipe.start_idx = a /\ pipe.end_idx # a)
                    \/ (pipe.end_idx = a /\ pipe.start_idx # a)
        joins(pipe) == (pipe.start_idx = a /\ pipe.end_idx = b)
                       \/ (pipe.start_idx = b /\ pipe.end_idx = a)
    IN IF a = b THEN ConductanceSum(at) ELSE FSub(0, ConductanceSum(joins))

\* the sum of row a of the pipe terms of the assembled matrix
RowSum(a) == FSum([k \in 1 .. num_total_indices |-> System.G[a][k - 1]], num_total_indices)

\* C25: the assembled matrix follows the graph-Laplacian pattern plus the
\* penalty terms: a pipe (i, j) of conductance g adds g to G[i,i] and G[j,j]
\* and subtracts g from G[i,j] and G[j,i], an anchor adds 1e6 to its diagonal
\* and 1e6 x target to its source entry; so in every iteration the matrix is
\* symmetric and a row sums to 1e6 at an anchor index and to 0 elsewhere.
C25_LaplacianPlusPenalty ==
    Assembling =>
        \A a \in 0 .. num_total_indices - 1 :
            /\ \A b \in 0 .. num_total_indices - 1 :
                  /\ System.G[a][b] = LaplacianEntry(a, b)
                  /\ ~IsNaN(System.G[a][b])
                  /\ System.G[a][b] = System.G[b][a]
            /\ System.W[a] = (IF a \in DOMAIN anchors THEN 1 ELSE 0)
            /\ System.T[a] = (IF a \in DOMAIN anchors THEN anchors[a] ELSE 0)
            /\ RowSum(a) = 0

(***************************************************************************)
(* Properties of LAHISolver._update_conductance                            *)
(***************************************************************************)
\* x lies between a and b, all three being numbers
Between(a, x, b) ==
    /\ ~IsNaN(a) /\ ~IsNaN(x) /\ ~IsNaN(b)
    /\ Min2(a, b) <= x
    /\ x <= Max2(a, b)

\* what an iteration that does not converge does to the conductance of a
\* pipe: the weighted mean of the old and the target value, under the omega
\* the same step has just adapted
SmoothsAsStated(pipe) ==
    LET g_old == StoredConductance(pipe)
        g_target == TargetConductance(pipe, P, real_flows)
        g_new == G_map'[PipeKey(pipe)]
    IN /\ Between(g_old, g_new, g_target)
       /\ g_new = ((OmegaOne - omega') * g_old + omega' * g_target) \div OmegaOne
       /\ g_new > 0

UpdatesAsStated ==
    pc = "check" =>
        IF NotConverging
        THEN \A k \in DOMAIN pipes : SmoothsAsStated(pipes[k])
        ELSE G_map' = G_map

\* C26: in every iteration that does not converge each pipe's stored
\* conductance becomes (1 - omega) G_old + omega G_target with the omega
\* adapted in that iteration, so it lies between G_old and G_target and
\* stays strictly positive; the iteration that converges leaves the
\* conductance map as it is.
C26_ConductanceSmoothing == [][UpdatesAsStated]_vars

(***************************************************************************)
(* Properties of the valve and tee parameters                              *)
(***************************************************************************)
\* run() has returned for a document that differs from the one of the run
\* before in valve and tee parameters only
RetunedRunDone == SecondRunDone /\ doc \in Retunings(previous.document)

\* C30: the outcome of solve() does not depend on a valve's Cv or opening
\* nor on a tee's loss coefficient: two runs on topologies that differ in
\* those parameters only return the same success flag, pressures, flows and
\* node flows, after the same iterations.
C30_ValveParametersUnread ==
    RetunedRunDone =>
        /\ response.success = previous.response.success
        /\ response = previous.response
        /\ ops["assemble"] = previous.iterations
        /\ P = previous.pressures
        /\ real_flows = previous.flows

\* two runs on a circuit have ended, both with flow through its valve, the
\* valve's Cv and opening having been changed in between
C30_Witness ==
    /\ RetunedRunDone
    /\ ops["audit"] > 1
    /\ \E k \in DOMAIN nodes :
          /\ nodes[k].type = "valve"
          /\ nodes[k].valve_cv * nodes[k].valve_open
                # previous.document.points[k].valve_k
                    * FloatOr(previous.document.points[k].valve_open, 100)
          /\ \E j \in DOMAIN pipes :
                /\ pipes[j].end_idx = nodes[k].matrix_idx
                /\ ~IsNaN(real_flows[pipes[j].id])
                /\ real_flows[pipes[j].id] > 0

(***************************************************************************)
(* C27: node labels stay unique in the topology document: after any        *)
(* sequence of add-point and delete-point operations in the editor no two  *)
(* stored points share a label, and adding a point leaves the stored       *)
(* record of every point that existed before as it was.                    *)
(***************************************************************************)
LabelsUnique ==
    \A i, j \in DOMAIN editor.points :
        editor.points[i].label = editor.points[j].label => i = j

AddKeepsRecords ==
    editor.last.op = "add_point" =>
        /\ Len(editor.points) = Len(editor.last.points) + 1
        /\ \A k \in DOMAIN editor.last.points : editor.points[k] = editor.last.points[k]

C27_LabelsUnique == LabelsUnique /\ AddKeepsRecords

(***************************************************************************)
(* C28: delete_point(label) removes the point of that label together with  *)
(* every line whose start_label or end_label is that label, and leaves     *)
(* every other point and line as it was, in the order it had; after it no  *)
(* stored line refers to the deleted label.                                *)
(***************************************************************************)
Refers(ln, label) == ln.start_label = label \/ ln.end_label = label

C28_DeletePointFrame ==
    editor.last.op = "delete_point" =>
        LET label == editor.last.label
            Other(p) == p.label # label
            Apart(ln) == ~Refers(ln, label)
        IN  /\ editor.points = SelectSeq(editor.last.points, Other)
            /\ editor.lines = SelectSeq(editor.last.lines, Apart)
            /\ \A k \in DOMAIN editor.points : editor.points[k].label # label
            /\ \A k \in DOMAIN editor.lines : ~Refers(editor.lines[k], label)

\* a point with two neighbours is deleted after the line between its
\* neighbours was drawn: its own line goes, the other line and both
\* neighbours stay
C28_Witness ==
    /\ editor.last.op = "delete_point"
    /\ Len(editor.last.points) = 3
    /\ Len(editor.points) = 2
    /\ Len(editor.last.lines) = 2
    /\ Len(editor.lines) = 1
    /\ \E k \in DOMAIN editor.last.lines : Refers(editor.last.lines[k], editor.last.label)

=============================================================================
